---- MODULE Spec2Model ----
(***************************************************************************)
(* Subject-verb-agreement analysis of grammar_engine/csg_engine.py.        *)
(*                                                                         *)
(* Python str values are TLA+ strings (TLC evaluates Len, \o, SubSeq, Head *)
(* and Tail on them); positions handed to SubSeq are 1-based, offsets and  *)
(* indexes that the program returns (start, end, subject_idx, verb_idx)    *)
(* keep Python's 0-based values.  A Python dict is a record whose DOMAIN   *)
(* is the set of keys present; a list is a sequence.                       *)
(***************************************************************************)
EXTENDS Integers, Sequences, FiniteSets, TLC

(***************************************************************************)
(* Bounds of the model.                                                    *)
(***************************************************************************)
MaxPhrases == 4

MaxWords == 4

MaxVerbLen == 4

(***************************************************************************)
(* Python values.                                                          *)
(***************************************************************************)
\* None where a dict is expected (compound_info).
None == << >>

\* None where a str is expected (subject, verb): no token is the empty string.
NoWord == ""

UpperLetters == "ABCDEFGHIJKLMNOPQRSTUVWXYZ"

LowerLetters == "abcdefghijklmnopqrstuvwxyz"

Digits == "0123456789"

\* The characters of s, as a set of one-character strings.
CharsOf(s) == { SubSeq(s, i, i) : i \in 1..Len(s) }

\* s[i] for a 0-based Python index i.
At(s, i) == SubSeq(s, i + 1, i + 1)

\* s[a:b] for 0-based Python bounds with 0 <= a.
Slice(s, a, b) == SubSeq(s, a + 1, IF b > Len(s) THEN Len(s) ELSE b)

WordChars == CharsOf(UpperLetters) \cup CharsOf(LowerLetters) \cup CharsOf(Digits) \cup {"_"}

\* \w of the re module, over the ASCII input alphabet.
IsWordChar(c) == c \in WordChars

\* The white space of ASCII: the blank, the tab, the line feed, the vertical tab, the
\* form feed, the carriage return and the four separators 0x1c to 0x1f.
WhiteSpace == {" ", "\t", "\n", "", "\f", "\r", "", "", "", ""}

\* \s of the re module, over the ASCII input alphabet.
IsSpace(c) == c \in WhiteSpace

UpperChars == CharsOf(UpperLetters)

\* str.isupper() of one character.
IsUpper(c) == c \in UpperChars

\* Upper-case letter :> its lower-case letter.
LowerMap ==
    [c \in UpperChars |->
        LET i == CHOOSE k \in 1..Len(UpperLetters) : SubSeq(UpperLetters, k, k) = c
        IN SubSeq(LowerLetters, i, i)]

LowerChar(c) == IF c \in UpperChars THEN LowerMap[c] ELSE c

RECURSIVE Lower(_)
\* str.lower()
Lower(s) == IF s = "" THEN "" ELSE LowerChar(Head(s)) \o Lower(Tail(s))

\* str.endswith(suf)
EndsWith(s, suf) == Len(s) >= Len(suf) /\ SubSeq(s, Len(s) - Len(suf) + 1, Len(s)) = suf

\* str.endswith(tuple)
EndsWithAny(s, sufs) == \E suf \in sufs : EndsWith(s, suf)

\* sub in s
Contains(s, sub) == \E i \in 1..(Len(s) - Len(sub) + 1) : SubSeq(s, i, i + Len(sub) - 1) = sub

\* s[:-n]
DropLast(s, n) == SubSeq(s, 1, Len(s) - n)

RECURSIVE Replace(_, _, _)
\* str.replace(old, new): every non-overlapping occurrence, left to right; an empty
\* old occurs before every character and at the end.
Replace(s, old, new) ==
    IF old = "" THEN new \o (IF s = "" THEN "" ELSE Head(s) \o Replace(Tail(s), old, new))
    ELSE IF Len(s) < Len(old) THEN s
    ELSE IF SubSeq(s, 1, Len(old)) = old
         THEN new \o Replace(SubSeq(s, Len(old) + 1, Len(s)), old, new)
         ELSE Head(s) \o Replace(Tail(s), old, new)

RECURSIVE RStrip(_, _)
\* str.rstrip(chars)
RStrip(s, chars) ==
    IF s # "" /\ SubSeq(s, Len(s), Len(s)) \in chars THEN RStrip(DropLast(s, 1), chars) ELSE s

RECURSIVE Join(_, _)
\* sep.join(parts)
Join(sep, parts) ==
    IF parts = << >> THEN ""
    ELSE IF Len(parts) = 1 THEN parts[1]
    ELSE parts[1] \o sep \o Join(sep, Tail(parts))

(***************************************************************************)
(* Lexicons (grammar_engine/extended_features.py).                         *)
(***************************************************************************)
PRONOUNS ==
    [w \in {"i", "you", "he", "she", "it", "we", "they"} |->
        IF w \in {"he", "she", "it"} THEN "singular" ELSE "plural"]

\* word :> <<number, paired form>>
IRREGULAR_VERBS ==
    [w \in {"is", "are", "was", "were", "has", "have", "does", "do"} |->
        CASE w = "is" -> <<"singular", "are">>
          [] w = "are" -> <<"plural", "is">>
          [] w = "was" -> <<"singular", "were">>
          [] w = "were" -> <<"plural", "was">>
          [] w = "has" -> <<"singular", "have">>
          [] w = "have" -> <<"plural", "has">>
          [] w = "does" -> <<"singular", "do">>
          [] w = "do" -> <<"plural", "does">>]

CONTRACTIONS ==
    [w \in {"don't", "dont", "doesn't", "doesnt", "isn't", "isnt", "aren't", "arent",
            "wasn't", "wasnt", "weren't", "werent", "haven't", "havent", "hasn't",
            "hasnt", "won't", "wont", "can't", "cant"} |->
        IF w \in {"doesn't", "doesnt", "isn't", "isnt", "wasn't", "wasnt", "hasn't",
                  "hasnt", "won't", "wont"}
        THEN "singular" ELSE "plural"]

AUXILIARIES ==
    {"is", "are", "was", "were", "has", "have", "do", "does", "will", "can", "should",
     "would", "could"}

INDEFINITE_PRONOUNS ==
    {"everyone", "everybody", "everything", "someone", "somebody", "something",
     "anyone", "anybody", "anything", "no one", "nobody", "nothing", "each", "either",
     "neither", "one", "another", "other"}

COLLECTIVE_NOUNS ==
    {"team", "group", "class", "family", "committee", "staff", "crew", "audience",
     "band", "jury", "council", "crowd", "company", "government", "organization",
     "department", "army", "navy", "police", "public"}

UNIT_WORDS ==
    {"dollars", "pesos", "pounds", "euros", "cents", "hours", "minutes", "seconds",
     "days", "weeks", "months", "years", "miles", "kilometers", "meters", "feet",
     "kilograms", "ounces"}

SINGULAR_PLURALS ==
    {"philippines", "united states", "netherlands", "mathematics", "physics",
     "economics", "politics", "news", "measles", "mumps", "diabetes", "athletics",
     "gymnastics", "statistics"}

(***************************************************************************)
(* Tokenizer.                                                              *)
(***************************************************************************)
RECURSIVE WordRunEnd(_, _)
\* End (0-based, exclusive) of the maximal run of \w characters of s that starts at
\* the 0-based position p.
WordRunEnd(s, p) == IF p < Len(s) /\ IsWordChar(At(s, p)) THEN WordRunEnd(s, p + 1) ELSE p

RECURSIVE WordMatchEnd_repeated(_, _)
\* Variant of WordMatchEnd: \w+(?:'\w+)*, every apostrophe inside a word is taken.
WordMatchEnd_repeated(s, p) ==
    LET q == WordRunEnd(s, p)
    IN IF q + 1 < Len(s) /\ At(s, q) = "'" /\ IsWordChar(At(s, q + 1))
       THEN WordMatchEnd_repeated(s, q + 1)
       ELSE q

\* End of the match of \w+(?:'\w+)? at p, where s[p] is a word character.
WordMatchEnd(s, p) ==
    LET q == WordRunEnd(s, p)
    IN IF q + 1 < Len(s) /\ At(s, q) = "'" /\ IsWordChar(At(s, q + 1))
       THEN WordRunEnd(s, q + 1)
       ELSE q

RECURSIVE TokenizeFrom(_, _)
TokenizeFrom(s, p) ==
    IF p >= Len(s) THEN << >>
    ELSE IF IsWordChar(At(s, p))
         THEN LET e == WordMatchEnd(s, p)
              IN <<[text |-> Slice(s, p, e), start |-> p, end |-> e]>> \o TokenizeFrom(s, e)
         ELSE IF IsSpace(At(s, p))
              THEN TokenizeFrom(s, p + 1)
              ELSE <<[text |-> At(s, p), start |-> p, end |-> p + 1]>> \o TokenizeFrom(s, p + 1)

\* re.finditer(r"\w+(?:'\w+)?|[^\s\w]", sentence)
tokenize(sentence) == TokenizeFrom(sentence, 0)

\* re.match(r"\w+(?:'\w+)?", text)
IsWordText(text) == text # "" /\ IsWordChar(Head(text))

IsWordToken(t) == IsWordText(t.text)

RECURSIVE TextsOf(_)
TextsOf(tokens) == IF tokens = << >> THEN << >> ELSE <<Head(tokens).text>> \o TextsOf(Tail(tokens))

\* [t['text'] for t in tokens if re.match(r"\w+(?:'\w+)?", t['text'])]
WordsOf(tokens) == TextsOf(SelectSeq(tokens, IsWordToken))

(***************************************************************************)
(* Lexical classifier.                                                     *)
(***************************************************************************)
irregular_plurals == {"children", "people", "men", "women", "feet", "teeth", "mice"}

\* Variant of classify_noun: the irregular plurals are looked up before the unit words.
classify_noun_irregular_first(noun) ==
    LET noun_l == Lower(noun)
    IN IF noun_l \in INDEFINITE_PRONOUNS THEN <<"indefinite", "singular">>
       ELSE IF noun_l \in DOMAIN PRONOUNS THEN <<"pronoun", PRONOUNS[noun_l]>>
       ELSE IF noun_l \in SINGULAR_PLURALS THEN <<"singular_plural", "singular">>
       ELSE IF noun_l \in COLLECTIVE_NOUNS THEN <<"collective", "singular">>
       ELSE IF noun_l \in irregular_plurals THEN <<"regular", "plural">>
       ELSE IF noun_l \in UNIT_WORDS THEN <<"unit", "singular">>
       ELSE IF EndsWith(noun_l, "s") /\ ~EndsWith(noun_l, "'s") THEN <<"regular", "plural">>
       ELSE <<"regular", "singular">>

\* (category, number)
classify_noun(noun) ==
    LET noun_l == Lower(noun)
    IN IF noun_l \in INDEFINITE_PRONOUNS THEN <<"indefinite", "singular">>
       ELSE IF noun_l \in DOMAIN PRONOUNS THEN <<"pronoun", PRONOUNS[noun_l]>>
       ELSE IF noun_l \in SINGULAR_PLURALS THEN <<"singular_plural", "singular">>
       ELSE IF noun_l \in COLLECTIVE_NOUNS THEN <<"collective", "singular">>
       ELSE IF noun_l \in UNIT_WORDS THEN <<"unit", "singular">>
       ELSE IF noun_l \in irregular_plurals THEN <<"regular", "plural">>
       ELSE IF EndsWith(noun_l, "s") /\ ~EndsWith(noun_l, "'s") THEN <<"regular", "plural">>
       ELSE <<"regular", "singular">>

classify_verb(verb) ==
    LET v == Lower(verb)
    IN IF v \in DOMAIN CONTRACTIONS THEN CONTRACTIONS[v]
       ELSE IF v \in DOMAIN IRREGULAR_VERBS THEN IRREGULAR_VERBS[v][1]
       ELSE IF EndsWith(v, "s") /\ v \notin {"was", "is", "has", "does"} THEN "singular"
       ELSE "plural"

(***************************************************************************)
(* Subject/verb locator.                                                   *)
(***************************************************************************)
dets == {"the", "a", "an"}

possessives == {"my", "your", "his", "her", "its", "our", "their"}

coordinators == {"and", "or", "nor"}

\* First 0-based index i in lo..Len(flags)-1 whose flag is set, or -1: the index at
\* which a "for ... if ...: break" loop over the words stops.
FirstIndexFrom(flags, lo) ==
    IF \E i \in lo..(Len(flags) - 1) : flags[i + 1]
    THEN CHOOSE i \in lo..(Len(flags) - 1) : flags[i + 1] /\ \A j \in lo..(i - 1) : ~flags[j + 1]
    ELSE -1

RECURSIVE SubjectScan(_, _, _)

\* A content word (neither auxiliary nor contraction) met by the subject loop in state
\* st1, where the subject is already set: <<state, break>>.
ScanNoun(i, st1) ==
    IF st1.found_coordinator
    THEN IF st1.nouns_after_coordinator + 1 = 1
         THEN <<[st1 EXCEPT !.nouns_after_coordinator = @ + 1, !.last_noun_idx = i], TRUE>>
         ELSE <<[st1 EXCEPT !.nouns_after_coordinator = @ + 1], FALSE>>
    ELSE <<[st1 EXCEPT !.last_noun_idx = i], FALSE>>

\* One iteration of the subject loop on the word w at index i: <<state, break>>.
ScanWord(w, w_lower, i, st) ==
    IF w_lower \in dets \/ w_lower \in possessives THEN <<st, FALSE>>
    ELSE IF w_lower \in coordinators THEN <<[st EXCEPT !.found_coordinator = TRUE], FALSE>>
    ELSE IF w_lower \notin AUXILIARIES /\ w_lower \notin DOMAIN CONTRACTIONS
         THEN ScanNoun(i, IF st.subject = NoWord
                          THEN [st EXCEPT !.subject = w, !.subject_idx = i]
                          ELSE st)
         ELSE <<st, FALSE>>

\* The rest of the loop after the iteration that gave `step`.
ScanOn(words, i, step) == IF step[2] THEN step[1] ELSE SubjectScan(words, i + 1, step[1])

\* The loop "for i, w in enumerate(words)" that finds the subject, from index i on.
SubjectScan(words, i, st) ==
    IF i >= Len(words) THEN st
    ELSE ScanOn(words, i, ScanWord(words[i + 1], Lower(words[i + 1]), i, st))

IsContraction(w) == Lower(w) \in DOMAIN CONTRACTIONS

IsAuxiliary(w) == Lower(w) \in AUXILIARIES

\* The main-verb heuristic: not a coordinator, not a determiner, no non-verb suffix.
IsMainVerbCandidate(w) ==
    LET w_lower == Lower(w)
    IN /\ w_lower \notin coordinators
       /\ w_lower \notin dets
       /\ ~EndsWithAny(w_lower, {"ly", "tion", "ness", "ment"})

\* "if subject is None": the first word is the subject.
SubjectOrFirst(words, scan) ==
    IF scan.subject = NoWord
    THEN [scan EXCEPT !.subject = words[1], !.subject_idx = 0, !.last_noun_idx = 0]
    ELSE scan

\* The index of the verb, from the indexes of the first contraction, the first
\* auxiliary and the first main-verb candidate (-1: none).
VerbIndex(words, verb_search_start, c_idx, a_idx, m_idx) ==
    IF c_idx # -1 THEN c_idx
    ELSE IF a_idx # -1 THEN a_idx
    ELSE IF m_idx # -1 THEN m_idx
    ELSE IF Len(words) > verb_search_start THEN Len(words) - 1
    ELSE -1

VerbFrom(words, verb_search_start) ==
    VerbIndex(words, verb_search_start,
              FirstIndexFrom([i \in 1..Len(words) |-> IsContraction(words[i])], 0),
              FirstIndexFrom([i \in 1..Len(words) |-> IsAuxiliary(words[i])], 0),
              FirstIndexFrom([i \in 1..Len(words) |-> IsMainVerbCandidate(words[i])],
                             verb_search_start))

Located(words, st, verb_idx) ==
    <<st.subject, IF verb_idx = -1 THEN NoWord ELSE words[verb_idx + 1], st.subject_idx, verb_idx>>

LocateFrom(words, compound_info, st) ==
    Located(words, st, VerbFrom(words, IF compound_info # None THEN st.last_noun_idx + 1
                                                              ELSE st.subject_idx + 1))

LocateIn(words, compound_info) ==
    IF words = << >> THEN <<NoWord, NoWord, -1, -1>>
    ELSE LocateFrom(words, compound_info,
             SubjectOrFirst(words,
                 SubjectScan(words, 0,
                     [subject |-> NoWord, subject_idx |-> -1, last_noun_idx |-> -1,
                      found_coordinator |-> FALSE, nouns_after_coordinator |-> 0])))

\* <<subject, verb, subject_idx, verb_idx>>
find_subject_and_verb(tokens, compound_info) == LocateIn(WordsOf(tokens), compound_info)

(***************************************************************************)
(* Compound-subject detector.                                              *)
(***************************************************************************)
\* "Verb before the coordinator" test of detect_compound_subject.
is_verb_before(before) ==
    LET before_lower == Lower(before)
    IN \/ before_lower \in AUXILIARIES
       \/ before_lower \in DOMAIN IRREGULAR_VERBS
       \/ before_lower \in DOMAIN CONTRACTIONS
       \/ /\ EndsWithAny(before_lower, {"s", "ed", "ing"})
          /\ before_lower \notin DOMAIN PRONOUNS
          /\ Len(before_lower) > 3

\* "Verb after the pronoun" test of detect_compound_subject.
is_verb_after(word) ==
    LET next_word == Lower(word)
    IN \/ next_word \in AUXILIARIES
       \/ next_word \in DOMAIN IRREGULAR_VERBS
       \/ EndsWithAny(next_word, {"s", "ed", "ing"})

RECURSIVE SkipDeterminers(_, _)
\* while after_idx < len(words) and words[after_idx].lower() in {'the','a','an'}
SkipDeterminers(words, after_idx) ==
    IF after_idx < Len(words) /\ Lower(words[after_idx + 1]) \in {"the", "a", "an"}
    THEN SkipDeterminers(words, after_idx + 1)
    ELSE after_idx

\* The word at after_idx does not open a new clause (a pronoun followed by a verb).
AfterIsSubject(words, after_idx) ==
    /\ after_idx < Len(words)
    /\ ~(/\ Lower(words[after_idx + 1]) \in DOMAIN PRONOUNS
         /\ after_idx + 1 < Len(words)
         /\ is_verb_after(words[after_idx + 2]))

\* The coordinator at 0-based index i is taken as joining a compound subject.
CompoundAt(words, i) ==
    /\ Lower(words[i + 1]) \in {"and", "or", "nor"}
    /\ i > 0 /\ i < Len(words) - 1
    /\ ~is_verb_before(words[i])
    /\ AfterIsSubject(words, SkipDeterminers(words, i + 1))

\* Variant of CompoundInfo: with 'or'/'nor' the number of the first subject is taken.
CompoundInfo_first_subject(w_lower, before, after) ==
    [coordinator |-> w_lower,
     subjects |-> <<before, after>>,
     compound_number |-> IF w_lower = "and" THEN "plural" ELSE classify_noun(before)[2]]

\* The dict returned for a coordinator w_lower between before and after.
CompoundInfo(w_lower, before, after) ==
    [coordinator |-> w_lower,
     subjects |-> <<before, after>>,
     compound_number |-> IF w_lower = "and" THEN "plural" ELSE classify_noun(after)[2]]

\* The dict returned for the coordinator at 0-based index i.
CompoundInfoAt(words, i) ==
    CompoundInfo(Lower(words[i + 1]), words[i], words[SkipDeterminers(words, i + 1) + 1])

\* Index of the first coordinator taken as joining a compound subject, or -1.
FirstCompoundIndex(words) ==
    IF \E i \in 0..(Len(words) - 1) : CompoundAt(words, i)
    THEN CHOOSE k \in 0..(Len(words) - 1) :
             CompoundAt(words, k) /\ \A j \in 0..(k - 1) : ~CompoundAt(words, j)
    ELSE -1

CompoundInfoOrNone(words, i) == IF i = -1 THEN None ELSE CompoundInfoAt(words, i)

detect_compound_subject(words) == CompoundInfoOrNone(words, FirstCompoundIndex(words))

(***************************************************************************)
(* Clause splitter.                                                        *)
(***************************************************************************)
clause_coordinators == {"and", "or", "but", "yet", "so", "for", "nor"}

common_verbs ==
    {"be", "have", "do", "say", "get", "make", "go", "know", "take", "see", "come",
     "think", "look", "want", "give", "use", "find", "tell", "ask", "work", "seem",
     "feel", "try", "leave", "call", "run", "play", "sing", "dance", "write", "read",
     "watch", "fix", "study", "love", "like", "need", "help", "talk", "turn", "start",
     "show", "hear", "move", "live", "bring", "sit", "stand", "eat", "drink", "sleep",
     "walk", "drive", "teach", "learn"}

\* base_verb of the scanned token (the 'ies' arm of the elif chain lies behind 'es'
\* and 's' and is never taken).
base_verb(w_lower) ==
    IF EndsWith(w_lower, "ing") THEN DropLast(w_lower, 3)
    ELSE IF EndsWith(w_lower, "ed")
         THEN (IF ~EndsWith(w_lower, "eed") THEN DropLast(w_lower, 2) ELSE DropLast(w_lower, 1))
    ELSE IF EndsWith(w_lower, "es") THEN DropLast(w_lower, 2)
    ELSE IF EndsWith(w_lower, "s") THEN DropLast(w_lower, 1)
    ELSE IF EndsWith(w_lower, "ies") THEN DropLast(w_lower, 3) \o "y"
    ELSE w_lower

\* second_base of the look-ahead word.
second_base(second_word_lower) ==
    IF EndsWith(second_word_lower, "ing") THEN DropLast(second_word_lower, 3)
    ELSE IF EndsWith(second_word_lower, "ed") THEN DropLast(second_word_lower, 2)
    ELSE IF EndsWith(second_word_lower, "es") THEN DropLast(second_word_lower, 2)
    ELSE IF EndsWith(second_word_lower, "s") THEN DropLast(second_word_lower, 1)
    ELSE IF EndsWith(second_word_lower, "ies") THEN DropLast(second_word_lower, 3) \o "y"
    ELSE second_word_lower

is_likely_verb(w_lower) ==
    \/ w_lower \in AUXILIARIES
    \/ w_lower \in DOMAIN CONTRACTIONS
    \/ w_lower \in DOMAIN IRREGULAR_VERBS
    \/ base_verb(w_lower) \in common_verbs
    \/ /\ EndsWithAny(w_lower, {"s", "es", "ed", "ing"})
       /\ w_lower \notin DOMAIN PRONOUNS
       /\ w_lower \notin {"the", "a", "an", "this", "that", "these", "those", "his",
                          "her", "its", "our", "their"}
       /\ Len(w_lower) > 2

is_new_clause_start(next_word) ==
    LET next_word_lower == Lower(next_word)
        is_determiner_or_pronoun ==
            \/ next_word_lower \in DOMAIN PRONOUNS
            \/ next_word_lower \in {"the", "a", "an", "this", "that", "these", "those"}
        is_potential_noun ==
            \/ IsUpper(Head(next_word))
            \/ /\ next_word_lower \notin clause_coordinators
               /\ next_word_lower \notin AUXILIARIES
               /\ next_word_lower \notin DOMAIN IRREGULAR_VERBS
    IN is_determiner_or_pronoun \/ is_potential_noun

has_following_verb(second_word) ==
    LET second_word_lower == Lower(second_word)
    IN \/ second_word_lower \in AUXILIARIES
       \/ second_word_lower \in DOMAIN IRREGULAR_VERBS
       \/ second_word_lower \in DOMAIN CONTRACTIONS
       \/ second_base(second_word_lower) \in common_verbs
       \/ /\ EndsWithAny(second_word_lower, {"s", "es", "ed", "ing"})
          /\ Len(second_word) > 2

\* The look-ahead of the token at 0-based index i: the word tokens of tokens[i+1:i+4]
\* start a new clause.
LookAheadSplits(tokens, i) ==
    LET hi == IF i + 4 > Len(tokens) THEN Len(tokens) ELSE i + 4
        next_tokens == SelectSeq(SubSeq(tokens, i + 2, hi), IsWordToken)
    IN /\ Len(next_tokens) >= 2
       /\ is_new_clause_start(next_tokens[1].text)
       /\ has_following_verb(next_tokens[2].text)

\* The scanning state after the verb test of the token at index i.
AfterVerbTest(tokens, i, st) ==
    IF is_likely_verb(Lower(tokens[i + 1].text)) /\ i > 0
    THEN [st EXCEPT !.found_first_verb = TRUE, !.verb_count = @ + 1]
    ELSE st

\* Variant of CommitsSplit: a split is committed at every clause coordinator.
CommitsSplit_any_coordinator(tokens, i, st) ==
    Lower(tokens[i + 1].text) \in clause_coordinators

\* A split is committed at the token at index i (st: the state after its verb test).
CommitsSplit(tokens, i, st) ==
    /\ Lower(tokens[i + 1].text) \in clause_coordinators
    /\ st.found_first_verb
    /\ st.verb_count >= 1
    /\ Len(st.current_clause) > 1
    /\ i < Len(tokens) - 2
    /\ LookAheadSplits(tokens, i)

RECURSIVE SplitScan(_, _, _)

\* Variant of SplitStep: the coordinator of a committed split opens the next clause.
SplitStep_keeps_coordinator(tokens, i, st1) ==
    IF CommitsSplit(tokens, i, st1)
    THEN [clauses |-> IF st1.current_clause # << >>
                      THEN Append(st1.clauses, st1.current_clause)
                      ELSE st1.clauses,
          current_clause |-> <<tokens[i + 1]>>,
          found_first_verb |-> FALSE,
          verb_count |-> 0]
    ELSE [st1 EXCEPT !.current_clause = Append(@, tokens[i + 1])]

\* The state after the token at index i, from the state st1 after its verb test.
SplitStep(tokens, i, st1) ==
    IF CommitsSplit(tokens, i, st1)
    THEN [clauses |-> IF st1.current_clause # << >>
                      THEN Append(st1.clauses, st1.current_clause)
                      ELSE st1.clauses,
          current_clause |-> << >>,
          found_first_verb |-> FALSE,
          verb_count |-> 0]
    ELSE [st1 EXCEPT !.current_clause = Append(@, tokens[i + 1])]

\* The loop "for i, token in enumerate(tokens)" from index i on.
SplitScan(tokens, i, st) ==
    IF i >= Len(tokens) THEN st
    ELSE SplitScan(tokens, i + 1, SplitStep(tokens, i, AfterVerbTest(tokens, i, st)))

SplitState(tokens) ==
    SplitScan(tokens, 0,
        [clauses |-> << >>, current_clause |-> << >>, found_first_verb |-> FALSE,
         verb_count |-> 0])

\* "if current_clause: clauses.append(current_clause)" after the loop.
ClausesOf(st) ==
    IF st.current_clause # << >> THEN Append(st.clauses, st.current_clause) ELSE st.clauses

\* "if len(clauses) <= 1: return [tokens]"
ClausesOrWhole(tokens, clauses) == IF Len(clauses) <= 1 THEN <<tokens>> ELSE clauses

\* List of token lists, one per clause.
split_compound_sentence(tokens) == ClausesOrWhole(tokens, ClausesOf(SplitState(tokens)))

(***************************************************************************)
(* CSG rule engine.                                                        *)
(***************************************************************************)
CSGRule(rule_id, left_context, symbol, right_context, replacement, description, sva_rule_number) ==
    [rule_id |-> rule_id, left_context |-> left_context, symbol |-> symbol,
     right_context |-> right_context, replacement |-> replacement,
     description |-> description, sva_rule_number |-> sva_rule_number]

CSG_PRODUCTION_RULES ==
    << CSGRule("R1.1", "NP[singular]", " ", "VP[", "VP[singular]",
               "Singular subject requires singular verb", 1),
       CSGRule("R1.2", "NP[plural]", " ", "VP[", "VP[plural]",
               "Plural subject requires plural verb", 1),
       CSGRule("R2.1", "NP[I]", " ", "VP[", "VP[plural]",
               "Pronoun 'I' takes plural verb form", 2),
       CSGRule("R2.2", "NP[you]", " ", "VP[", "VP[plural]",
               "Pronoun 'you' takes plural verb form", 2),
       CSGRule("R3", "NP[", "]+[", "]NP[", "]+NP[plural]",
               "Subjects joined by 'and' require plural verb", 3),
       CSGRule("R4.1", "NP[", "]+[or]NP[singular]", " VP[", "VP[singular]",
               "With 'or', verb agrees with nearest (singular) subject", 4),
       CSGRule("R4.2", "NP[", "]+[or]NP[plural]", " VP[", "VP[plural]",
               "With 'or', verb agrees with nearest (plural) subject", 4),
       CSGRule("R4.3", "NP[", "]+[nor]NP[singular]", " VP[", "VP[singular]",
               "With 'nor', verb agrees with nearest (singular) subject", 4),
       CSGRule("R4.4", "NP[", "]+[nor]NP[plural]", " VP[", "VP[plural]",
               "With 'nor', verb agrees with nearest (plural) subject", 4),
       CSGRule("R5", "NP[indefinite]", " ", "VP[", "VP[singular]",
               "Indefinite pronouns (everyone, somebody, each) take singular verbs", 5),
       CSGRule("R6", "NP[collective]", " ", "VP[", "VP[singular]",
               "Collective nouns (team, group, class) take singular verbs", 6),
       CSGRule("R8", "NP[unit]", " ", "VP[", "VP[singular]",
               "Amounts, time, and money expressions take singular verbs", 8),
       CSGRule("R9", "NP[singular_plural]", " ", "VP[", "VP[singular]",
               "Titles, countries, and special subjects (mathematics, Philippines) take singular verbs", 9) >>

\* CSGRule.matches(string, position)
matches(rule, string, position) ==
    LET symbol_end == position + Len(rule.symbol)
        left_start == position - Len(rule.left_context)
        right_end == symbol_end + Len(rule.right_context)
    IN /\ symbol_end <= Len(string)
       /\ Slice(string, position, symbol_end) = rule.symbol
       /\ left_start >= 0
       /\ (rule.left_context # "" => Slice(string, left_start, position) = rule.left_context)
       /\ right_end <= Len(string)
       /\ (rule.right_context # "" => Slice(string, symbol_end, right_end) = rule.right_context)

\* CSGRule.apply(string, position)
apply(rule, string, position) ==
    LET left_start == position - Len(rule.left_context)
        symbol_end == position + Len(rule.symbol)
        right_end == symbol_end + Len(rule.right_context)
        prefix == IF left_start > 0 THEN Slice(string, 0, left_start) ELSE ""
        suffix == IF right_end < Len(string) THEN Slice(string, right_end, Len(string)) ELSE ""
    IN prefix \o rule.left_context \o rule.replacement \o rule.right_context \o suffix

\* Variant of create_initial_parse_string: the pronoun is tagged in its own case.
create_initial_parse_string_own_case(subject, verb, subject_category, subject_number, verb_number, compound_info) ==
    IF compound_info # None
    THEN "NP[" \o subject_category \o "+" \o compound_info.coordinator \o "+" \o subject_number
            \o "] VP[" \o verb_number \o "]"
    ELSE IF Lower(subject) \in {"i", "you"} /\ subject_category = "pronoun"
         THEN "NP[" \o subject \o "] VP[" \o verb_number \o "]"
         ELSE "NP[" \o (IF subject_category # "regular" THEN subject_category ELSE subject_number)
                 \o "] VP[" \o verb_number \o "]"

create_initial_parse_string(subject, verb, subject_category, subject_number, verb_number, compound_info) ==
    IF compound_info # None
    THEN "NP[" \o subject_category \o "+" \o compound_info.coordinator \o "+" \o subject_number
            \o "] VP[" \o verb_number \o "]"
    ELSE IF Lower(subject) \in {"i", "you"} /\ subject_category = "pronoun"
         THEN "NP[" \o Lower(subject) \o "] VP[" \o verb_number \o "]"
         ELSE "NP[" \o (IF subject_category # "regular" THEN subject_category ELSE subject_number)
                 \o "] VP[" \o verb_number \o "]"

\* Some position of the string matches the rule.
RuleMatches(rule, string) == \E pos \in 0..(Len(string) - 1) : matches(rule, string, pos)

\* Variant of FirstRule: the last production rule that matches somewhere.
FirstRule_last(string) ==
    IF \E r \in 1..Len(CSG_PRODUCTION_RULES) : RuleMatches(CSG_PRODUCTION_RULES[r], string)
    THEN CHOOSE k \in 1..Len(CSG_PRODUCTION_RULES) :
             /\ RuleMatches(CSG_PRODUCTION_RULES[k], string)
             /\ \A j \in (k + 1)..Len(CSG_PRODUCTION_RULES) :
                    ~RuleMatches(CSG_PRODUCTION_RULES[j], string)
    ELSE 0

\* 1-based index of the first production rule that matches somewhere, or 0.
FirstRule(string) ==
    IF \E r \in 1..Len(CSG_PRODUCTION_RULES) : RuleMatches(CSG_PRODUCTION_RULES[r], string)
    THEN CHOOSE k \in 1..Len(CSG_PRODUCTION_RULES) :
             /\ RuleMatches(CSG_PRODUCTION_RULES[k], string)
             /\ \A j \in 1..(k - 1) : ~RuleMatches(CSG_PRODUCTION_RULES[j], string)
    ELSE 0

\* First position of the string at which the rule matches.
FirstPosition(rule, string) ==
    CHOOSE q \in 0..(Len(string) - 1) :
        /\ matches(rule, string, q)
        /\ \A j \in 0..(q - 1) : ~matches(rule, string, j)

InitialStep(parse_string) ==
    [step |-> 0, string |-> parse_string, rule |-> NoWord, description |-> "Initial parse string"]

\* The step appended when rule rewrites the string into new_string.
RuleStep(rule, new_string) ==
    [step |-> 1, string |-> new_string, rule |-> rule.rule_id,
     rule_description |-> rule.description, sva_rule |-> rule.sva_rule_number,
     production |-> rule.left_context \o rule.symbol \o rule.right_context \o " → "
                    \o rule.left_context \o rule.replacement \o rule.right_context]

Derived(derivation_steps, current_string, expected_verb_number) ==
    <<derivation_steps, current_string,
      Contains(current_string, "VP[" \o expected_verb_number \o "]")>>

DeriveWith(parse_string, expected_verb_number, rule, new_string) ==
    Derived(<<InitialStep(parse_string), RuleStep(rule, new_string)>>, new_string,
            expected_verb_number)

DeriveBy(parse_string, expected_verb_number, rule) ==
    DeriveWith(parse_string, expected_verb_number, rule,
               apply(rule, parse_string, FirstPosition(rule, parse_string)))

DeriveFrom(parse_string, expected_verb_number, r) ==
    IF r = 0
    THEN Derived(<<InitialStep(parse_string)>>, parse_string, expected_verb_number)
    ELSE DeriveBy(parse_string, expected_verb_number, CSG_PRODUCTION_RULES[r])

\* <<derivation_steps, final_string, is_correct>>
apply_csg_derivation(parse_string, expected_verb_number) ==
    DeriveFrom(parse_string, expected_verb_number, FirstRule(parse_string))

(***************************************************************************)
(* Verb corrector.                                                         *)
(***************************************************************************)
\* Variant of PluralOfEs: the base is kept only when it has no sibilant ending.
PluralOfEs_unless_sibilant(verb, base) ==
    IF EndsWithAny(base, {"s", "sh", "ch", "x", "z", "o"}) THEN DropLast(verb, 1) ELSE base

\* Plural form of a verb in 'es', from the verb less its last two letters.
PluralOfEs(verb, base) ==
    IF EndsWithAny(base, {"s", "sh", "ch", "x", "z", "o"}) THEN base ELSE DropLast(verb, 1)

\* The regular rules.
RegularForm(verb, v_lower, target_number) ==
    IF target_number = "singular"
    THEN IF ~EndsWith(v_lower, "s")
         THEN IF \/ EndsWithAny(v_lower, {"s", "sh", "ch", "x", "z"})
                 \/ (EndsWith(v_lower, "o") /\ ~EndsWithAny(v_lower, {"oo", "eo", "io"}))
              THEN verb \o "es"
              ELSE IF /\ EndsWith(v_lower, "y")
                      /\ Len(v_lower) > 1
                      /\ At(v_lower, Len(v_lower) - 2) \notin CharsOf("aeiou")
                   THEN DropLast(verb, 1) \o "ies"
                   ELSE verb \o "s"
         ELSE verb
    ELSE IF EndsWith(v_lower, "ies") THEN DropLast(verb, 3) \o "y"
         ELSE IF EndsWith(v_lower, "es") /\ Len(v_lower) > 2
              THEN PluralOfEs(verb, DropLast(verb, 2))
         ELSE IF EndsWith(v_lower, "s") /\ v_lower \notin {"is", "has", "does", "was"}
              THEN DropLast(verb, 1)
              ELSE verb

\* The contraction arm.
ContractionForm(verb, v_lower, target_number) ==
    IF target_number = "singular"
    THEN IF Contains(v_lower, "do") THEN "doesn't"
         ELSE IF Contains(v_lower, "is") \/ Contains(v_lower, "are") THEN "isn't"
         ELSE IF Contains(v_lower, "was") \/ Contains(v_lower, "were") THEN "wasn't"
         ELSE IF Contains(v_lower, "has") \/ Contains(v_lower, "have") THEN "hasn't"
         ELSE verb
    ELSE IF Contains(v_lower, "do") THEN "don't"
         ELSE IF Contains(v_lower, "is") \/ Contains(v_lower, "are") THEN "aren't"
         ELSE IF Contains(v_lower, "was") \/ Contains(v_lower, "were") THEN "weren't"
         ELSE IF Contains(v_lower, "has") \/ Contains(v_lower, "have") THEN "haven't"
         ELSE verb

CorrectForm(verb, v_lower, target_number) ==
    IF v_lower \in DOMAIN CONTRACTIONS
    THEN ContractionForm(verb, v_lower, target_number)
    ELSE IF v_lower \in DOMAIN IRREGULAR_VERBS /\ IRREGULAR_VERBS[v_lower][1] # target_number
         THEN IRREGULAR_VERBS[v_lower][2]
         ELSE RegularForm(verb, v_lower, target_number)

get_correct_verb_form(verb, target_number) == CorrectForm(verb, Lower(verb), target_number)

(***************************************************************************)
(* Analysis orchestrator.                                                  *)
(***************************************************************************)
\* Variant of agreement_ok: the derivation's verdict decides.
agreement_ok_by_derivation(subject_number, verb_number, is_correct) == is_correct

\* agreement_ok of analyze_single_clause; is_correct is the derivation's verdict,
\* which the code computes and does not consult.
agreement_ok(subject_number, verb_number, is_correct) == subject_number = verb_number

\* Variant of parse_tree_of: the VP subtree carries the subject's number.
parse_tree_agreeing(display_subject, subject_number, verb, verb_number) ==
    [label |-> "S",
     children |->
        << [label |-> "NP (" \o subject_number \o ")",
            children |-> << [label |-> "N", text |-> display_subject,
                             features |-> [number |-> subject_number]] >>],
           [label |-> "VP (" \o subject_number \o ")",
            children |-> << [label |-> "V", text |-> verb,
                             features |-> [number |-> subject_number]] >>] >>]

parse_tree_of(display_subject, subject_number, verb, verb_number) ==
    [label |-> "S",
     children |->
        << [label |-> "NP (" \o subject_number \o ")",
            children |-> << [label |-> "N", text |-> display_subject,
                             features |-> [number |-> subject_number]] >>],
           [label |-> "VP (" \o verb_number \o ")",
            children |-> << [label |-> "V", text |-> verb,
                             features |-> [number |-> verb_number]] >>] >>]

\* len([d for d in derivation_steps if d['rule'] is not None])
HasRule(d) == d.rule # NoWord

rules_applied(derivation_steps) == Len(SelectSeq(derivation_steps, HasRule))

\* The csg_analysis entry of a result.
CsgAnalysisOk(parse_string, derivation) ==
    [initial_string |-> parse_string,
     final_string |-> derivation[2],
     rules_applied |-> rules_applied(derivation[1])]

CsgAnalysisError(parse_string, derivation, subject_number) ==
    [initial_string |-> parse_string,
     final_string |-> derivation[2],
     expected_string |-> "NP[" \o subject_number \o "] VP[" \o subject_number \o "]",
     rules_applied |-> rules_applied(derivation[1])]

\* The dict returned when the subject and the verb agree.
OkReport(display_subject, subject_number, verb, verb_number, parse_string, derivation) ==
    [status |-> "ok",
     message |-> "Subject-verb agreement is correct. Subject '" \o display_subject
                   \o "' (" \o subject_number \o ") agrees with verb '" \o verb
                   \o "' (" \o verb_number \o ").",
     problem_spans |-> << >>,
     parse_tree |-> parse_tree_of(display_subject, subject_number, verb, verb_number),
     derivation |-> derivation[1],
     csg_analysis |-> CsgAnalysisOk(parse_string, derivation)]

\* The dict returned when they disagree.
ErrorReport(clause_text, display_subject, subject_number, verb, verb_number, parse_string, derivation) ==
    [status |-> "error",
     message |-> "Subject-verb disagreement: '" \o display_subject \o "' ("
                   \o subject_number \o ") does not agree with '" \o verb \o "' ("
                   \o verb_number \o ").",
     problem_spans |-> << [type |-> "subject", text |-> display_subject,
                           features |-> [number |-> subject_number],
                           subject_features |-> [number |-> subject_number],
                           verb_features |-> [number |-> verb_number]] >>,
     parse_tree |-> parse_tree_of(display_subject, subject_number, verb, verb_number),
     derivation |-> derivation[1],
     original_sentence |-> clause_text,
     suggested_correction |->
         Replace(clause_text, verb, get_correct_verb_form(verb, subject_number)),
     csg_analysis |-> CsgAnalysisError(parse_string, derivation, subject_number)]

\* "if agreement_ok: return {...}" and the error return after it.
ReportDerived(clause_text, display_subject, subject_number, verb, verb_number, parse_string, derivation) ==
    IF agreement_ok(subject_number, verb_number, derivation[3])
    THEN OkReport(display_subject, subject_number, verb, verb_number, parse_string, derivation)
    ELSE ErrorReport(clause_text, display_subject, subject_number, verb, verb_number,
                     parse_string, derivation)

ReportParsed(clause_text, display_subject, subject_number, verb, verb_number, parse_string) ==
    ReportDerived(clause_text, display_subject, subject_number, verb, verb_number, parse_string,
                  apply_csg_derivation(parse_string, subject_number))

ReportClassified(clause_text, subject, verb, compound_info, subject_category, subject_number, display_subject, verb_number) ==
    ReportParsed(clause_text, display_subject, subject_number, verb, verb_number,
                 create_initial_parse_string(subject, verb, subject_category, subject_number,
                                             verb_number, compound_info))

\* Category and number of the subject: <<subject_category, subject_number>>.
SubjectClass(subject, compound_info) ==
    IF compound_info # None THEN <<"compound", compound_info.compound_number>>
                            ELSE classify_noun(subject)

display_subject_of(subject, compound_info) ==
    IF compound_info # None
    THEN compound_info.subjects[1] \o " " \o compound_info.coordinator
            \o " " \o compound_info.subjects[2]
    ELSE subject

ReportOf(clause_text, subject, verb, compound_info, subject_class) ==
    ReportClassified(clause_text, subject, verb, compound_info, subject_class[1],
                     subject_class[2], display_subject_of(subject, compound_info),
                     classify_verb(verb))

\* The part of analyze_single_clause after a subject and a verb were found.
ClauseReport(clause_text, subject, verb, compound_info) ==
    ReportOf(clause_text, subject, verb, compound_info, SubjectClass(subject, compound_info))

\* Variant of ClauseLocated: "if not subject", the verb is not tested.
ClauseLocated_subject_only(clause_text, compound_info, sv) ==
    IF sv[1] = NoWord
    THEN [status |-> "error", message |-> "Unable to identify subject and verb."]
    ELSE ClauseReport(clause_text, sv[1], sv[2], compound_info)

\* "if not subject or not verb" and what follows it.
ClauseLocated(clause_text, compound_info, sv) ==
    IF sv[1] = NoWord \/ sv[2] = NoWord
    THEN [status |-> "error", message |-> "Unable to identify subject and verb."]
    ELSE ClauseReport(clause_text, sv[1], sv[2], compound_info)

ClauseDetected(tokens, clause_text, compound_info) ==
    ClauseLocated(clause_text, compound_info, find_subject_and_verb(tokens, compound_info))

ClauseWords(tokens, clause_text, words) ==
    IF words = << >>
    THEN [status |-> "error", message |-> "Unable to parse clause (too short)."]
    ELSE ClauseDetected(tokens, clause_text, detect_compound_subject(words))

analyze_single_clause(tokens, clause_text) == ClauseWords(tokens, clause_text, WordsOf(tokens))

\* Variant of clause_text_of: ''.join(...), the blanks between the tokens are lost.
clause_text_unspaced(clause_tokens) == Join("", TextsOf(clause_tokens))

\* ' '.join([t['text'] for t in clause_tokens])
clause_text_of(clause_tokens) == Join(" ", TextsOf(clause_tokens))

\* The entry of clause_analyses for a clause.
ClauseEntry(clause_number, clause_tokens, clause_text) ==
    [clause_number |-> clause_number,
     text |-> clause_text,
     analysis |-> analyze_single_clause(clause_tokens, clause_text)]

\* The entry of clause_analyses for the clause at 0-based index i.
clause_analysis(clauses, i) == ClauseEntry(i + 1, clauses[i + 1], clause_text_of(clauses[i + 1]))

\* dict.get(key, default)
Get(d, key, default) == IF key \in DOMAIN d THEN d[key] ELSE default

\* Variant of all_problems: only the first clause's problems are collected.
all_problems_first_clause(clause_analyses) ==
    IF clause_analyses = << >> THEN << >>
    ELSE IF Head(clause_analyses).analysis.status = "error"
         THEN Get(Head(clause_analyses).analysis, "problem_spans", << >>)
         ELSE << >>

RECURSIVE all_problems(_)
\* all_problems after the loop over the clauses.
all_problems(clause_analyses) ==
    IF clause_analyses = << >> THEN << >>
    ELSE (IF Head(clause_analyses).analysis.status = "error"
          THEN Get(Head(clause_analyses).analysis, "problem_spans", << >>)
          ELSE << >>) \o all_problems(Tail(clause_analyses))

RECURSIVE all_parse_trees(_)
all_parse_trees(clause_analyses) ==
    IF clause_analyses = << >> THEN << >>
    ELSE (IF "parse_tree" \in DOMAIN Head(clause_analyses).analysis
          THEN << Head(clause_analyses).analysis.parse_tree >>
          ELSE << >>) \o all_parse_trees(Tail(clause_analyses))

IsCoordinatorToken(t) == Lower(t.text) \in clause_coordinators

RECURSIVE corrected_parts(_, _, _)

\* The text a clause contributes to the corrected sentence.
corrected_part(c) ==
    IF c.analysis.status = "error" /\ "suggested_correction" \in DOMAIN c.analysis
    THEN RStrip(c.analysis.suggested_correction, {" ", "."})
    ELSE RStrip(c.text, {" ", "."})

\* The loop "for idx, c in enumerate(clause_analyses)" from index idx on.
corrected_parts(clause_analyses, coords, idx) ==
    IF idx >= Len(clause_analyses) THEN << >>
    ELSE <<corrected_part(clause_analyses[idx + 1])>>
         \o (IF idx < Len(clause_analyses) - 1 /\ idx < Len(coords)
             THEN << coords[idx + 1] >>
             ELSE << >>)
         \o corrected_parts(clause_analyses, coords, idx + 1)

\* Variant of has_errors: all(...) instead of any(...).
has_errors_all(clause_analyses) ==
    \A i \in 1..Len(clause_analyses) : clause_analyses[i].analysis.status = "error"

\* any(c['analysis']['status'] == 'error' for c in clause_analyses)
has_errors(clause_analyses) ==
    \E i \in 1..Len(clause_analyses) : clause_analyses[i].analysis.status = "error"

IsErrorClause(c) == c.analysis.status = "error"

\* The coordinators of the sentence, in order.
coordinators_of(sentence) == TextsOf(SelectSeq(tokenize(sentence), IsCoordinatorToken))

compound_tree(clause_analyses) ==
    [label |-> "S (Compound)", children |-> all_parse_trees(clause_analyses)]

\* The dict analyze_compound_sentence returns, from the analyses of the clauses.
CompoundReport(sentence, clauses, clause_analyses) ==
    IF has_errors(clause_analyses)
    THEN [status |-> "error",
          message |-> "Found " \o ToString(Len(SelectSeq(clause_analyses, IsErrorClause)))
                        \o " error(s) in compound sentence.",
          is_compound |-> TRUE,
          clause_count |-> Len(clauses),
          clause_analyses |-> clause_analyses,
          problem_spans |-> all_problems(clause_analyses),
          parse_tree |-> compound_tree(clause_analyses),
          suggested_correction |->
              Join(" ", corrected_parts(clause_analyses, coordinators_of(sentence), 0)) \o ".",
          original_sentence |-> sentence]
    ELSE [status |-> "ok",
          message |-> "All " \o ToString(Len(clauses))
                        \o " clauses have correct subject-verb agreement.",
          is_compound |-> TRUE,
          clause_count |-> Len(clauses),
          clause_analyses |-> clause_analyses,
          parse_tree |-> compound_tree(clause_analyses)]

analyze_compound_sentence(sentence, clauses) ==
    CompoundReport(sentence, clauses,
                   [i \in 1..Len(clauses) |-> clause_analysis(clauses, i - 1)])

\* "if len(clauses) > 1" of analyze.
AnalyzeClauses(sentence, tokens, clauses) ==
    IF Len(clauses) > 1
    THEN analyze_compound_sentence(sentence, clauses)
    ELSE analyze_single_clause(tokens, sentence)

AnalyzeTokens(sentence, tokens) ==
    IF WordsOf(tokens) = << >>
    THEN [status |-> "error",
          message |-> "Unable to parse sentence (too short or not supported)."]
    ELSE AnalyzeClauses(sentence, tokens, split_compound_sentence(tokens))

analyze(sentence) == AnalyzeTokens(sentence, tokenize(sentence))

(***************************************************************************)
(* The program as a state machine.  A caller composes an input and hands   *)
(* it to a function of csg_engine.py, which computes the whole result in   *)
(* one call.  result is the dict analyze of csg_engine.py returns; the     *)
(* HTTP route of backend/app.py, which picks the engine module and adds    *)
(* the key engine_used to that dict, lies outside the model:               *)
(*   Spec         a sentence typed phrase by phrase, then analyze;         *)
(*   SpecPattern  a sentence "det noun verb coordinator det noun verb",    *)
(*                then analyze;                                            *)
(*   SpecDetect   a word list, then detect_compound_subject;               *)
(*   SpecVerb     a verb typed letter by letter and a target number, then  *)
(*                get_correct_verb_form;                                   *)
(*   SpecJoin     a compound sentence typed clause by clause, then         *)
(*                analyze;                                                 *)
(*   SpecPriority a sentence typed word by word from pronouns,             *)
(*                contractions and auxiliaries, then analyze;              *)
(*   SpecTokens   a string typed character by character, then tokenize;    *)
(*   SpecDerive   a tagged string, then apply_csg_derivation or the apply  *)
(*                of a rule that matches;                                  *)
(*   SpecLexicon  a verb of the contraction or irregular-verb lexicon and  *)
(*                a target number, then get_correct_verb_form;             *)
(*   SpecNoun     a word of the noun lexicons or a regular noun, then      *)
(*                classify_noun;                                           *)
(*   SpecSplit    a sentence typed phrase by phrase, then tokenize and     *)
(*                split_compound_sentence;                                 *)
(*   SpecSubjects a sentence "subject verb" over the kinds of subject,     *)
(*                then analyze.                                            *)
(***************************************************************************)
VARIABLES
    pc,             \* "input" while the caller composes, "done" after the call
    sentence,       \* the argument of analyze
    typed,          \* number of phrases typed into sentence
    result,         \* the dict returned by analyze (None before the call)
    words,          \* the argument of detect_compound_subject
    compound_info,  \* its return value (None before the call)
    verb,           \* the verb handed to get_correct_verb_form
    target_number,  \* the target number handed to it ("" before the call)
    correct_verb,   \* its return value ("" before the call)
    tokens,         \* the list returned by tokenize (empty before the call)
    parse_string,   \* the string handed to apply_csg_derivation and to CSGRule.apply
    expected_verb_number,   \* the number handed to apply_csg_derivation
    derivation,     \* its return value (None before the call)
    rule,           \* 1-based index of the rule whose apply is called (0 before)
    position,       \* the position handed to CSGRule.apply
    new_string,     \* the string CSGRule.apply returns ("" before the call)
    noun,           \* the word handed to classify_noun
    noun_class,     \* the (category, number) it returns (None before the call)
    clauses         \* the list returned by split_compound_sentence (None before)

vars == <<pc, sentence, typed, result, words, compound_info, verb, target_number, correct_verb,
          tokens, parse_string, expected_verb_number, derivation, rule, position, new_string,
          noun, noun_class, clauses>>

sentence_vars == <<sentence, typed, result>>

detect_vars == <<words, compound_info>>

verb_vars == <<verb, target_number, correct_verb>>

derive_vars == <<parse_string, expected_verb_number, derivation>>

rule_vars == <<rule, position, new_string>>

noun_vars == <<noun, noun_class>>

\* The variables of the calls of tokenize, apply_csg_derivation, CSGRule.apply,
\* classify_noun and split_compound_sentence.
call_vars == <<tokens, derive_vars, rule_vars, noun_vars, clauses>>

Numbers == {"singular", "plural"}

\* ---- Spec: analyze on typed sentences ----
Phrases == {"he runs", "runs", "run", "cats", "the cat", "and"}

Marks == {"."}

Init ==
    /\ pc = "input"
    /\ sentence = "" /\ typed = 0 /\ result = None
    /\ words = << >> /\ compound_info = None
    /\ verb = "" /\ target_number = "" /\ correct_verb = ""
    /\ tokens = << >>
    /\ parse_string = "" /\ expected_verb_number = "" /\ derivation = None
    /\ rule = 0 /\ position = 0 /\ new_string = ""
    /\ noun = "" /\ noun_class = None /\ clauses = None

\* The caller appends a phrase, after a blank unless it opens the sentence.
TypePhrase(p) ==
    /\ pc = "input"
    /\ typed < MaxPhrases
    /\ sentence' = IF sentence = "" THEN p ELSE sentence \o " " \o p
    /\ typed' = typed + 1
    /\ UNCHANGED <<pc, result, detect_vars, verb_vars, call_vars>>

\* The caller appends a punctuation mark.
TypeMark(m) ==
    /\ pc = "input"
    /\ typed < MaxPhrases
    /\ sentence' = sentence \o m
    /\ typed' = typed + 1
    /\ UNCHANGED <<pc, result, detect_vars, verb_vars, call_vars>>

\* The caller opens the sentence with a blank.
TypeBlank ==
    /\ pc = "input"
    /\ typed < MaxPhrases
    /\ sentence = ""
    /\ sentence' = " "
    /\ typed' = typed + 1
    /\ UNCHANGED <<pc, result, detect_vars, verb_vars, call_vars>>

\* analyze(sentence)
Analyze ==
    /\ pc = "input"
    /\ result' = analyze(sentence)
    /\ pc' = "done"
    /\ UNCHANGED <<sentence, typed, detect_vars, verb_vars, call_vars>>

Next ==
    \/ \E p \in Phrases : TypePhrase(p)
    \/ \E m \in Marks : TypeMark(m)
    \/ TypeBlank
    \/ Analyze

Spec == Init /\ [][Next]_vars

\* ---- SpecPattern: analyze on two clauses "det noun verb" joined by a coordinator ----
PatternDets == {"the", "a"}

\* The determiner that opens the sentence, capitalised.
PatternOpeners == {"The", "A"}

PatternNouns == {"cat", "dog", "cats", "children"}

PatternVerbs == {"runs", "barks", "run", "bark"}

\* determiner + noun + verb
PatternClause(ds) == { d \o " " \o n \o " " \o v : d \in ds, n \in PatternNouns, v \in PatternVerbs }

PatternSentences ==
    { c1 \o " " \o k \o " " \o c2 \o "." : c1 \in PatternClause(PatternOpeners),
                                           k \in clause_coordinators,
                                           c2 \in PatternClause(PatternDets) }

InitPattern ==
    /\ pc = "input"
    /\ sentence \in PatternSentences /\ typed = 0 /\ result = None
    /\ words = << >> /\ compound_info = None
    /\ verb = "" /\ target_number = "" /\ correct_verb = ""
    /\ tokens = << >>
    /\ parse_string = "" /\ expected_verb_number = "" /\ derivation = None
    /\ rule = 0 /\ position = 0 /\ new_string = ""
    /\ noun = "" /\ noun_class = None /\ clauses = None

NextPattern == Analyze

SpecPattern == InitPattern /\ [][NextPattern]_vars

\* ---- SpecDetect: detect_compound_subject on word lists ----
DetectVocabulary ==
    {"cat", "cats", "he", "they", "team", "runs", "don't", "the", "and", "or", "nor"}

WordLists == UNION { [1..n -> DetectVocabulary] : n \in 0..MaxWords }

InitDetect ==
    /\ pc = "input"
    /\ sentence = "" /\ typed = 0 /\ result = None
    /\ words \in WordLists /\ compound_info = None
    /\ verb = "" /\ target_number = "" /\ correct_verb = ""
    /\ tokens = << >>
    /\ parse_string = "" /\ expected_verb_number = "" /\ derivation = None
    /\ rule = 0 /\ position = 0 /\ new_string = ""
    /\ noun = "" /\ noun_class = None /\ clauses = None

\* detect_compound_subject(words)
Detect ==
    /\ pc = "input"
    /\ compound_info' = detect_compound_subject(words)
    /\ pc' = "done"
    /\ UNCHANGED <<sentence_vars, words, verb_vars, call_vars>>

NextDetect == Detect

SpecDetect == InitDetect /\ [][NextDetect]_vars

\* ---- SpecVerb: get_correct_verb_form on typed verbs ----
VerbLetters == {"s", "e", "i", "y", "o", "d", "u", "S"}

\* The caller appends a letter to the verb.
TypeLetter(c) ==
    /\ pc = "input"
    /\ Len(verb) < MaxVerbLen
    /\ verb' = verb \o c
    /\ UNCHANGED <<pc, sentence_vars, detect_vars, target_number, correct_verb, call_vars>>

\* get_correct_verb_form(verb, t)
Correct(t) ==
    /\ pc = "input"
    /\ verb # ""
    /\ target_number' = t
    /\ correct_verb' = get_correct_verb_form(verb, t)
    /\ pc' = "done"
    /\ UNCHANGED <<sentence_vars, detect_vars, verb, call_vars>>

NextVerb ==
    \/ \E c \in VerbLetters : TypeLetter(c)
    \/ \E t \in Numbers : Correct(t)

SpecVerb == Init /\ [][NextVerb]_vars

\* SpecJoin: a compound sentence typed clause by clause, a coordinator between two
\* clauses and a terminal mark at the end, then analyze.
MaxClauses == 3

JoinClauses == {"he runs", "they runs", "he or they run"}

JoinCoordinators == {"and", "but"}

TerminalMarks == {".", "!", "?"}

\* The caller appends a clause, to open the sentence or after a coordinator.
TypeClause(c) ==
    /\ pc = "input"
    /\ typed < MaxClauses
    /\ sentence = "" \/ EndsWithAny(sentence, JoinCoordinators)
    /\ sentence' = IF sentence = "" THEN c ELSE sentence \o " " \o c
    /\ typed' = typed + 1
    /\ UNCHANGED <<pc, result, detect_vars, verb_vars, call_vars>>

\* The caller appends a coordinator after a clause, when a clause may follow.
TypeCoordinator(c) ==
    /\ pc = "input"
    /\ typed < MaxClauses
    /\ sentence # ""
    /\ ~EndsWithAny(sentence, JoinCoordinators \cup TerminalMarks)
    /\ sentence' = sentence \o " " \o c
    /\ UNCHANGED <<pc, typed, result, detect_vars, verb_vars, call_vars>>

\* The caller ends the sentence with a terminal mark after a clause.
TypeEnd(m) ==
    /\ pc = "input"
    /\ sentence # ""
    /\ ~EndsWithAny(sentence, JoinCoordinators \cup TerminalMarks)
    /\ sentence' = sentence \o m
    /\ UNCHANGED <<pc, typed, result, detect_vars, verb_vars, call_vars>>

NextJoin ==
    \/ \E c \in JoinClauses : TypeClause(c)
    \/ \E c \in JoinCoordinators : TypeCoordinator(c)
    \/ \E m \in TerminalMarks : TypeEnd(m)
    \/ Analyze

SpecJoin == Init /\ [][NextJoin]_vars

\* SpecPriority: a sentence typed phrase by phrase from pronouns, contractions, an
\* auxiliary, a verb, an adverb, a coordinator and two coordinated verbs, then
\* analyze.
PriorityWords ==
    {"they", "he", "don't", "doesn't", "are", "run", "quickly", "and", "run and jump"}

NextPriority ==
    \/ \E w \in PriorityWords : TypePhrase(w)
    \/ Analyze

SpecPriority == Init /\ [][NextPriority]_vars

\* SpecTokens: a string typed character by character, then tokenize.
MaxChars == 5

TokenChars == {"a", "B", "'", " ", "\t", "."}

\* The caller appends a character to the string.
TypeChar(c) ==
    /\ pc = "input"
    /\ Len(sentence) < MaxChars
    /\ sentence' = sentence \o c
    /\ UNCHANGED <<pc, typed, result, detect_vars, verb_vars, call_vars>>

\* tokenize(sentence)
Tokenize ==
    /\ pc = "input"
    /\ tokens' = tokenize(sentence)
    /\ pc' = "done"
    /\ UNCHANGED <<sentence_vars, detect_vars, verb_vars, derive_vars, rule_vars, noun_vars, clauses>>

NextTokens ==
    \/ \E c \in TokenChars : TypeChar(c)
    \/ Tokenize

SpecTokens == Init /\ [][NextTokens]_vars

\* SpecDerive: a tagged string and an expected number, then apply_csg_derivation on
\* them, or CSGRule.apply of a rule at a position where the rule matches.
NPTags ==
    {"singular", "plural", "pronoun", "i", "you", "indefinite", "collective", "unit",
     "singular_plural", "compound+and+plural", "compound+or+singular", "compound+nor+plural"}

\* NP[features] VP[features], the format of create_initial_parse_string.
TaggedStrings(tags) == { "NP[" \o n \o "] VP[" \o v \o "]" : n \in tags, v \in Numbers }

\* Strings of two tagged clauses, on which several rules match.
TaggedPairs == { a \o " " \o b : a, b \in TaggedStrings(Numbers) }

\* Strings with the bracketed compounds and the pronoun tag the rules R2.1, R3 and
\* R4.x are written for.
BracketedStrings ==
    {"NP[I] VP[plural]", "NP[]+[]NP[plural] VP[plural]",
     "NP[]+[or]NP[singular] VP[plural]", "NP[]+[or]NP[plural] VP[plural]",
     "NP[]+[nor]NP[singular] VP[plural]", "NP[]+[nor]NP[plural] VP[singular]"}

DeriveStrings == TaggedStrings(NPTags) \cup TaggedPairs \cup BracketedStrings

InitDerive ==
    /\ pc = "input"
    /\ sentence = "" /\ typed = 0 /\ result = None
    /\ words = << >> /\ compound_info = None
    /\ verb = "" /\ target_number = "" /\ correct_verb = ""
    /\ tokens = << >>
    /\ parse_string \in DeriveStrings /\ expected_verb_number \in Numbers /\ derivation = None
    /\ rule = 0 /\ position = 0 /\ new_string = ""
    /\ noun = "" /\ noun_class = None /\ clauses = None

\* apply_csg_derivation(parse_string, expected_verb_number)
Derive ==
    /\ pc = "input"
    /\ derivation' = apply_csg_derivation(parse_string, expected_verb_number)
    /\ pc' = "done"
    /\ UNCHANGED <<sentence_vars, detect_vars, verb_vars, tokens, parse_string,
                   expected_verb_number, rule_vars, noun_vars, clauses>>

\* rule.apply(parse_string, pos), where rule.matches(parse_string, pos) holds
ApplyRule(r, pos) ==
    /\ pc = "input"
    /\ matches(CSG_PRODUCTION_RULES[r], parse_string, pos)
    /\ rule' = r
    /\ position' = pos
    /\ new_string' = apply(CSG_PRODUCTION_RULES[r], parse_string, pos)
    /\ pc' = "done"
    /\ UNCHANGED <<sentence_vars, detect_vars, verb_vars, tokens, derive_vars, noun_vars, clauses>>

NextDerive ==
    \/ Derive
    \/ \E r \in 1..Len(CSG_PRODUCTION_RULES), pos \in 0..(Len(parse_string) - 1) : ApplyRule(r, pos)

SpecDerive == InitDerive /\ [][NextDerive]_vars

\* ---- SpecLexicon: get_correct_verb_form on the verbs of the lexicons ----
\* Contractions written with a capital, as at the head of a question.
CapitalContractions ==
    {"Don't", "Doesn't", "Isn't", "Aren't", "Wasn't", "Weren't", "Haven't", "Hasn't",
     "Won't", "Can't"}

LexiconVerbs == DOMAIN CONTRACTIONS \cup DOMAIN IRREGULAR_VERBS \cup CapitalContractions

\* The caller names a verb of the lexicons.
TypeVerb(v) ==
    /\ pc = "input"
    /\ verb = ""
    /\ verb' = v
    /\ UNCHANGED <<pc, sentence_vars, detect_vars, target_number, correct_verb, call_vars>>

NextLexicon ==
    \/ \E v \in LexiconVerbs : TypeVerb(v)
    \/ \E t \in Numbers : Correct(t)

SpecLexicon == Init /\ [][NextLexicon]_vars

\* ---- SpecNoun: classify_noun on the words of the lexicons ----
\* Nouns of no lexicon, and lexicon words in another case.
OtherNouns ==
    {"cat", "cats", "cat's", "boss", "bus", "s", "Feet", "NEWS", "I", "You", "They",
     "Team", "Each", "Dollars", "Children"}

NounInputs ==
    INDEFINITE_PRONOUNS \cup DOMAIN PRONOUNS \cup SINGULAR_PLURALS \cup COLLECTIVE_NOUNS
        \cup UNIT_WORDS \cup irregular_plurals \cup OtherNouns

\* The caller names a word.
TypeNoun(w) ==
    /\ pc = "input"
    /\ noun = ""
    /\ noun' = w
    /\ UNCHANGED <<pc, sentence_vars, detect_vars, verb_vars, tokens, derive_vars,
                   rule_vars, noun_class, clauses>>

\* classify_noun(noun)
Classify ==
    /\ pc = "input"
    /\ noun # ""
    /\ noun_class' = classify_noun(noun)
    /\ pc' = "done"
    /\ UNCHANGED <<sentence_vars, detect_vars, verb_vars, tokens, derive_vars,
                   rule_vars, noun, clauses>>

NextNoun ==
    \/ \E w \in NounInputs : TypeNoun(w)
    \/ Classify

SpecNoun == Init /\ [][NextNoun]_vars

\* ---- SpecSplit: split_compound_sentence on the tokens of typed sentences ----
SplitPhrases == {"he runs", "and he runs", "or they run", "the cat", "runs", "and", ","}

\* tokens = tokenize(sentence); clauses = split_compound_sentence(tokens)
Split ==
    /\ pc = "input"
    /\ tokens' = tokenize(sentence)
    /\ clauses' = split_compound_sentence(tokenize(sentence))
    /\ pc' = "done"
    /\ UNCHANGED <<sentence_vars, detect_vars, verb_vars, derive_vars, rule_vars, noun_vars>>

NextSplit ==
    \/ \E p \in SplitPhrases : TypePhrase(p)
    \/ Split

SpecSplit == Init /\ [][NextSplit]_vars

\* ---- SpecSubjects: analyze on "subject verb" over the kinds of subject ----
\* Subjects whose tagged string no production rule rewrites: compound subjects, 'I'
\* and the third-person, 'we' and 'they' pronouns.
UntaggedSubjects ==
    {"I", "i", "he", "She", "it", "we", "they", "cat and dogs", "cat or dogs", "cat nor dog",
     "he or the cat"}

\* Subjects whose tagged string one production rule rewrites.
TaggedSubjects ==
    {"cat", "cats", "the cat", "you", "You", "everyone", "Each", "team", "dollars", "feet",
     "news", "children"}

SubjectVerbs == {"run", "runs", "are"}

SentencesOf(subjects) == { s \o " " \o v : s \in subjects, v \in SubjectVerbs }

InitSubjects ==
    /\ pc = "input"
    /\ sentence \in SentencesOf(UntaggedSubjects \cup TaggedSubjects) /\ typed = 0 /\ result = None
    /\ words = << >> /\ compound_info = None
    /\ verb = "" /\ target_number = "" /\ correct_verb = ""
    /\ tokens = << >>
    /\ parse_string = "" /\ expected_verb_number = "" /\ derivation = None
    /\ rule = 0 /\ position = 0 /\ new_string = ""
    /\ noun = "" /\ noun_class = None /\ clauses = None

NextSubjects == Analyze

SpecSubjects == InitSubjects /\ [][NextSubjects]_vars

(***************************************************************************)
(* Properties of the results.                                              *)
(***************************************************************************)
\* The clauses analyze works on: the token lists split_compound_sentence returns
\* (the whole token list when the sentence is not split).
Clauses == split_compound_sentence(tokenize(sentence))

\* The analysis analyze made of clause k of the clauses cl: the result itself for a
\* sentence that is not split, the clause's entry of clause_analyses otherwise.
AnalysisOf(cl, k) == IF Len(cl) > 1 THEN result.clause_analyses[k].analysis ELSE result

\* What the detector, the locator and the classifiers give for a clause with the
\* compound info ci and the located pair sv: the subject and the verb, whether both
\* are found, their numbers and the display text of the subject.
FactsLocated(ci, sv) ==
    [subject |-> sv[1],
     verb |-> sv[2],
     both |-> sv[1] # NoWord /\ sv[2] # NoWord,
     subject_number |-> IF sv[1] = NoWord THEN NoWord
                        ELSE IF ci # None THEN ci.compound_number
                        ELSE classify_noun(sv[1])[2],
     verb_number |-> IF sv[2] = NoWord THEN NoWord ELSE classify_verb(sv[2]),
     display |-> IF ci # None
                 THEN ci.subjects[1] \o " " \o ci.coordinator \o " " \o ci.subjects[2]
                 ELSE sv[1]]

FactsDetected(clause_tokens, ci) == FactsLocated(ci, find_subject_and_verb(clause_tokens, ci))

ClauseFacts(clause_tokens) ==
    FactsDetected(clause_tokens, detect_compound_subject(WordsOf(clause_tokens)))

\* A subject and a verb are located and their classified numbers differ.
Mismatch(f) == f.both /\ f.subject_number # f.verb_number

IsCompoundResult(r) == "is_compound" \in DOMAIN r

\* The status of a clause with the facts f says whether its numbers are equal.
SoundClause(f, analysis) ==
    f.both => (analysis.status = "ok" <=> f.subject_number = f.verb_number)

AllSound(cl) == \A k \in 1..Len(cl) : SoundClause(ClauseFacts(cl[k]), AnalysisOf(cl, k))

\* C1: in every clause where a subject and a verb are located, the status is "ok"
\* exactly when the subject number (the compound number for a compound subject,
\* classify_noun's otherwise) equals classify_verb's number of the verb, whatever
\* the derivation gives.
C1_AgreementSoundness == pc = "done" => AllSound(Clauses)

\* The clause is in error although its derivation, by a rule, ends in a string that
\* holds VP[<subject number>].
ErrorDespiteDerivation(f, analysis) ==
    /\ Mismatch(f)
    /\ analysis.status = "error"
    /\ analysis.csg_analysis.rules_applied = 1
    /\ Contains(analysis.csg_analysis.final_string, "VP[" \o f.subject_number \o "]")

\* C1 witness: a sentence of a determiner, a singular noun and a plural verb, in
\* error although is_correct of the derivation is True.
C1_Witness ==
    /\ pc = "done"
    /\ Len(Clauses) = 1
    /\ Len(WordsOf(Clauses[1])) = 3
    /\ ErrorDespiteDerivation(ClauseFacts(Clauses[1]), result)
    /\ ClauseFacts(Clauses[1]).subject_number = "singular"
    /\ ClauseFacts(Clauses[1]).verb_number = "plural"
    /\ ClauseFacts(Clauses[1]).verb = "run"
    /\ Lower(WordsOf(Clauses[1])[1]) \in dets

NoVerbIn(cl) == \E k \in 1..Len(cl) : ClauseFacts(cl[k]).verb = NoWord

\* C2: analyze returns, for every input, a result whose status is "ok" or "error" and
\* which carries a message; with no word token, or a clause where no verb is located,
\* the status is "error".
C2_AnalyzeTotal ==
    pc = "done" =>
        /\ {"status", "message"} \subseteq DOMAIN result
        /\ result.status \in {"ok", "error"}
        /\ Len(result.message) > 0
        /\ (WordsOf(tokenize(sentence)) = << >> => result.status = "error")
        /\ (NoVerbIn(Clauses) => result.status = "error")

\* C2 witness: an input with a word token and no verb to locate (a single word).
C2_Witness ==
    /\ pc = "done"
    /\ WordsOf(tokenize(sentence)) # << >>
    /\ NoVerbIn(Clauses)
    /\ result.status = "error"
    /\ result.message = "Unable to identify subject and verb."

\* C3: a sentence "determiner noun verb <coordinator> determiner noun verb." is
\* analysed as a compound sentence of two clauses, one analysis per clause, with
\* status "ok" when both clauses agree.
C3_PatternIsCompound ==
    pc = "done" =>
        /\ IsCompoundResult(result)
        /\ result.is_compound = TRUE
        /\ result.clause_count = 2
        /\ Len(result.clause_analyses) = 2
        /\ ((\A k \in 1..2 : result.clause_analyses[k].analysis.status = "ok")
                => result.status = "ok")

\* One entry of problem_spans records the two numbers.
SpanRecords(span, subject_number, verb_number) ==
    /\ span.subject_features.number = subject_number
    /\ span.verb_features.number = verb_number

\* The result r reports the mismatch of the clause with the facts f: status "error",
\* a message with the display subject and the verb, a problem span with the two
\* numbers.
ReportsMismatch(r, f) ==
    /\ r.status = "error"
    /\ Contains(r.message, f.display)
    /\ Contains(r.message, f.verb)
    /\ "problem_spans" \in DOMAIN r
    /\ r.problem_spans # << >>
    /\ \E j \in 1..Len(r.problem_spans) :
           SpanRecords(r.problem_spans[j], f.subject_number, f.verb_number)

ResultReports(f) == Mismatch(f) => ReportsMismatch(result, f)

\* C4 as stated: whenever a located subject and verb differ in number, the result of
\* analyze has status "error", a message with the display subject and the verb, and
\* a non-empty problem_spans with the two numbers.
C4_MismatchReported ==
    pc = "done" => \A k \in 1..Len(Clauses) : ResultReports(ClauseFacts(Clauses[k]))

\* Number of clause analyses in error.
ErrorCount(r) ==
    Cardinality({ k \in 1..Len(r.clause_analyses) :
                    r.clause_analyses[k].analysis.status = "error" })

\* The analysis of a mismatched clause reports the mismatch, and the result of the
\* sentence is in error and holds the clause's span.
ClauseReports(f, analysis) ==
    Mismatch(f) =>
        /\ ReportsMismatch(analysis, f)
        /\ Len(analysis.problem_spans) = 1
        /\ result.status = "error"
        /\ "problem_spans" \in DOMAIN result
        /\ \E j \in 1..Len(result.problem_spans) :
               result.problem_spans[j] = analysis.problem_spans[1]
        /\ (IsCompoundResult(result) =>
                result.message = "Found " \o ToString(ErrorCount(result))
                                   \o " error(s) in compound sentence.")

AllReport(cl) == \A k \in 1..Len(cl) : ClauseReports(ClauseFacts(cl[k]), AnalysisOf(cl, k))

\* C4 amended: the analysis of the mismatched clause itself (the result for a
\* sentence that is not split) reports the mismatch; the result of a compound
\* sentence then has status "error", the message "Found N error(s) in compound
\* sentence." and a problem_spans that holds the clause's span.
C4_ClauseMismatchReported == pc = "done" => AllReport(Clauses)

\* C4 witness: a compound sentence whose second clause, with a plural subject, has
\* the mismatch.
C4_Witness ==
    /\ pc = "done"
    /\ Len(Clauses) = 2
    /\ ~Mismatch(ClauseFacts(Clauses[1]))
    /\ Mismatch(ClauseFacts(Clauses[2]))
    /\ ClauseFacts(Clauses[2]).subject_number = "plural"
    /\ result.status = "error"
    /\ Len(result.problem_spans) = 1

\* The words of DetectVocabulary that name a subject.
SubjectWords == {"cat", "cats", "he", "they", "team"}

\* C5: on [X, "and", Y] with subject words X and Y, detect_compound_subject returns a
\* compound with coordinator "and" and compound number "plural", never None.
C5_AndIsPlural ==
    (/\ pc = "done"
     /\ Len(words) = 3
     /\ words[1] \in SubjectWords /\ words[2] = "and" /\ words[3] \in SubjectWords)
        => /\ compound_info # None
           /\ compound_info.coordinator = "and"
           /\ compound_info.compound_number = "plural"

\* The word at 1-based position j is the first word after position i that is no
\* determiner.
FirstAfterDeterminers(i, j) ==
    /\ j > i /\ j <= Len(words)
    /\ Lower(words[j]) \notin {"the", "a", "an"}
    /\ \A m \in (i + 1)..(j - 1) : Lower(words[m]) \in {"the", "a", "an"}

\* C6: a compound returned with coordinator "or" or "nor" has the number classify_noun
\* gives its second subject, the first non-determiner word after the coordinator.
C6_OrNorNearest ==
    (pc = "done" /\ compound_info # None /\ compound_info.coordinator \in {"or", "nor"})
        => \E i \in 2..(Len(words) - 1), j \in 3..Len(words) :
               /\ Lower(words[i]) = compound_info.coordinator
               /\ compound_info.subjects[1] = words[i - 1]
               /\ FirstAfterDeterminers(i, j)
               /\ compound_info.subjects[2] = words[j]
               /\ compound_info.compound_number = classify_noun(words[j])[2]

\* C6 witness: an "or" compound whose first subject is plural and whose second
\* subject, behind a determiner, is singular.
C6_Witness ==
    /\ pc = "done"
    /\ compound_info # None
    /\ compound_info.coordinator = "or"
    /\ classify_noun(compound_info.subjects[1])[2] = "plural"
    /\ classify_noun(compound_info.subjects[2])[2] = "singular"
    /\ compound_info.compound_number = "singular"
    /\ words[3] = "the"

\* A verb of neither the contraction nor the irregular-verb lexicon.
IsRegularVerb(v) ==
    Lower(v) \notin DOMAIN CONTRACTIONS /\ Lower(v) \notin DOMAIN IRREGULAR_VERBS

\* C7: for a regular verb V and a target number T other than classify_verb(V),
\* classify_verb(get_correct_verb_form(V, T)) is T.
C7_CorrectionConverges ==
    (pc = "done" /\ IsRegularVerb(verb) /\ classify_verb(verb) # target_number)
        => classify_verb(correct_verb) = target_number

\* C8: the analysis stored for each clause of a compound sentence is what analyze
\* returns for the clause's text alone.
C8_ClauseIndependence ==
    (pc = "done" /\ IsCompoundResult(result)) =>
        \A k \in 1..Len(result.clause_analyses) :
            result.clause_analyses[k].analysis = analyze(result.clause_analyses[k].text)

\* C8 witness: a compound sentence with a clause that agrees and a clause in error
\* that carries a correction.
C8_Witness ==
    /\ pc = "done"
    /\ IsCompoundResult(result)
    /\ \E k \in 1..Len(result.clause_analyses) :
           result.clause_analyses[k].analysis.status = "ok"
    /\ \E k \in 1..Len(result.clause_analyses) :
           /\ result.clause_analyses[k].analysis.status = "error"
           /\ "suggested_correction" \in DOMAIN result.clause_analyses[k].analysis

\* The token texts of the clause of entry k of clause_analyses.
EntryTexts(k) == TextsOf(tokenize(result.clause_analyses[k].text))

RECURSIVE EntryStart(_)
\* 1-based position, among the tokens of the sentence, of the first token of entry k:
\* one coordinator lies between two clauses.
EntryStart(k) == IF k = 1 THEN 1 ELSE EntryStart(k - 1) + Len(EntryTexts(k - 1)) + 1

\* Entry k of clause_analyses has the number k and the tokens that lie at its place
\* among the token texts of the sentence, behind a clause coordinator.
EntryInOrder(texts, k, start, entry_texts) ==
    /\ result.clause_analyses[k].clause_number = k
    /\ SubSeq(texts, start, start + Len(entry_texts) - 1) = entry_texts
    /\ (k > 1 => Lower(texts[start - 1]) \in clause_coordinators)

EntriesInOrder(texts) ==
    /\ \A k \in 1..Len(result.clause_analyses) :
           EntryInOrder(texts, k, EntryStart(k), EntryTexts(k))
    /\ EntryStart(Len(result.clause_analyses) + 1) = Len(texts) + 2

\* C9: a compound result is in error exactly when some clause analysis is;
\* clause_count is the number of entries of clause_analyses and at least 2; the
\* entries are numbered 1..clause_count and lie in the sentence in that order, a
\* clause coordinator between two of them.
C9_CompoundStatus ==
    (pc = "done" /\ IsCompoundResult(result)) =>
        /\ result.status \in {"ok", "error"}
        /\ (result.status = "error"
                <=> \E k \in 1..Len(result.clause_analyses) :
                        result.clause_analyses[k].analysis.status = "error")
        /\ result.clause_count = Len(result.clause_analyses)
        /\ result.clause_count >= 2
        /\ EntriesInOrder(TextsOf(tokenize(sentence)))

\* C9 witness: a compound sentence in error with a clause that agrees.
C9_Witness ==
    /\ pc = "done"
    /\ IsCompoundResult(result)
    /\ result.status = "error"
    /\ result.clause_count = 2
    /\ result.clause_analyses[1].analysis.status = "ok"
    /\ result.clause_analyses[2].analysis.status = "error"

\* C10: only a result in error carries suggested_correction; a result in error for a
\* number mismatch carries one; a result with status "ok" has an empty problem_spans
\* and no suggested_correction.
C10_CorrectionOnlyOnError ==
    pc = "done" =>
        /\ ("suggested_correction" \in DOMAIN result => result.status = "error")
        /\ ((result.status = "error"
                /\ \E k \in 1..Len(Clauses) : Mismatch(ClauseFacts(Clauses[k])))
                => "suggested_correction" \in DOMAIN result)
        /\ (result.status = "ok" =>
                /\ "problem_spans" \in DOMAIN result
                /\ result.problem_spans = << >>
                /\ "suggested_correction" \notin DOMAIN result)

\* The tree is S over an NP subtree with the number sn and a VP subtree with the
\* number vn, and nothing else.
IsClauseTree(tree, sn, vn) ==
    /\ tree.label = "S"
    /\ Len(tree.children) = 2
    /\ tree.children[1].label = "NP (" \o sn \o ")"
    /\ Len(tree.children[1].children) = 1
    /\ tree.children[1].children[1].label = "N"
    /\ tree.children[1].children[1].features.number = sn
    /\ tree.children[2].label = "VP (" \o vn \o ")"
    /\ Len(tree.children[2].children) = 1
    /\ tree.children[2].children[1].label = "V"
    /\ tree.children[2].children[1].features.number = vn

\* The analysis of a clause with a located subject and verb carries the clause's
\* tree, with the subject and the verb as leaves.
ClauseHasTree(f, analysis) ==
    f.both =>
        /\ "parse_tree" \in DOMAIN analysis
        /\ IsClauseTree(analysis.parse_tree, f.subject_number, f.verb_number)
        /\ analysis.parse_tree.children[1].children[1].text = f.display
        /\ analysis.parse_tree.children[2].children[1].text = f.verb

AllHaveTrees(cl) == \A k \in 1..Len(cl) : ClauseHasTree(ClauseFacts(cl[k]), AnalysisOf(cl, k))

\* The entries of clause_analyses that carry a parse tree, in clause order.
EntryHasTree(c) == "parse_tree" \in DOMAIN c.analysis

\* The children of the compound tree are the clauses' trees, in clause order.
CompoundTreeInOrder(entries, children) ==
    /\ Len(children) = Len(entries)
    /\ \A j \in 1..Len(entries) : children[j] = entries[j].analysis.parse_tree

\* C11: every clause analysis (the result itself for a sentence that is not split)
\* in which a subject and a verb are located carries a parse tree "S" with exactly
\* two children, an NP subtree with the classified subject number and a VP subtree
\* with the classified verb number; a compound result carries a tree "S (Compound)"
\* whose children are the parse trees of its clauses, in clause order.
C11_ParseTreeShape ==
    pc = "done" =>
        /\ AllHaveTrees(Clauses)
        /\ (IsCompoundResult(result) =>
                /\ "parse_tree" \in DOMAIN result
                /\ result.parse_tree.label = "S (Compound)"
                /\ CompoundTreeInOrder(SelectSeq(result.clause_analyses, EntryHasTree),
                                       result.parse_tree.children))

\* C11 witness: a compound sentence of two clauses with different trees, the second
\* with an NP and a VP of different numbers.
C11_Witness ==
    /\ pc = "done"
    /\ IsCompoundResult(result)
    /\ Len(result.parse_tree.children) = 2
    /\ result.parse_tree.children[1] # result.parse_tree.children[2]
    /\ result.parse_tree.children[2].children[1].children[1].features.number = "plural"
    /\ result.parse_tree.children[2].children[2].children[1].features.number = "singular"

\* The coordinator token at which clause k and clause k + 1 of the result were split.
SplitCoordinator(texts, k) == texts[EntryStart(k + 1) - 1]

RECURSIVE JoinedTexts(_, _)
\* The token texts of the corrected clauses k, k + 1, ... of the result, the
\* coordinator of each split between two of them.
JoinedTexts(texts, k) ==
    TextsOf(tokenize(corrected_part(result.clause_analyses[k])))
        \o (IF k < Len(result.clause_analyses)
            THEN <<SplitCoordinator(texts, k)>> \o JoinedTexts(texts, k + 1)
            ELSE << >>)

\* The sequence begins with the sequence prefix.
StartsWith(seq, prefix) ==
    Len(prefix) <= Len(seq) /\ SubSeq(seq, 1, Len(prefix)) = prefix

\* C12: the suggested_correction of a compound sentence holds the corrected clause
\* texts in clause order, and between clause k and clause k + 1 the coordinator
\* token at which the two were split in the sentence.
C12_CoordinatorsKept ==
    (/\ pc = "done"
     /\ IsCompoundResult(result)
     /\ "suggested_correction" \in DOMAIN result)
        => StartsWith(TextsOf(tokenize(result.suggested_correction)),
                      JoinedTexts(TextsOf(tokenize(sentence)), 1))

\* The last character of s is the mark m and the one before it is no terminal mark.
EndsInOneMark(s, m) ==
    /\ Len(s) >= 2
    /\ At(s, Len(s) - 1) = m
    /\ At(s, Len(s) - 2) \notin TerminalMarks

\* C13: the suggested_correction of a compound sentence that ends in a terminal mark
\* ends in exactly one terminal mark, the mark of the sentence.
C13_TerminalMarkKept ==
    (/\ pc = "done"
     /\ IsCompoundResult(result)
     /\ "suggested_correction" \in DOMAIN result
     /\ EndsWithAny(sentence, TerminalMarks))
        => EndsInOneMark(result.suggested_correction, At(sentence, Len(sentence) - 1))

RECURSIVE ReplaceFirst(_, _, _)
\* s with its first occurrence of old replaced by new: s.replace(old, new, 1).
ReplaceFirst(s, old, new) ==
    IF old = "" THEN new \o s
    ELSE IF Len(s) < Len(old) THEN s
    ELSE IF SubSeq(s, 1, Len(old)) = old THEN new \o SubSeq(s, Len(old) + 1, Len(s))
    ELSE Head(s) \o ReplaceFirst(Tail(s), old, new)

\* The text analyze_single_clause was given for clause k of the clauses cl.
ClauseTextOf(cl, k) == IF Len(cl) > 1 THEN result.clause_analyses[k].text ELSE sentence

\* The correction of a mismatched clause replaces the first occurrence of the verb.
CorrectsFirstVerb(f, analysis, clause_text) ==
    Mismatch(f) =>
        /\ "suggested_correction" \in DOMAIN analysis
        /\ analysis.suggested_correction =
               ReplaceFirst(clause_text, f.verb,
                            get_correct_verb_form(f.verb, f.subject_number))

AllCorrectFirstVerb(cl) ==
    \A k \in 1..Len(cl) :
        CorrectsFirstVerb(ClauseFacts(cl[k]), AnalysisOf(cl, k), ClauseTextOf(cl, k))

\* C14: on a mismatch the suggested correction of the clause is the clause text with
\* the first occurrence of the verb's surface form replaced by the corrected verb and
\* every other character unchanged.
C14_OnlyFirstVerbReplaced == pc = "done" => AllCorrectFirstVerb(Clauses)

\* What the locator chose in a clause with the words ws, the compound info ci and
\* the located tuple sv.
ChoiceLocated(ws, ci, sv) ==
    [words |-> ws, compound |-> ci # None,
     subject |-> sv[1], verb |-> sv[2], subject_idx |-> sv[3], verb_idx |-> sv[4]]

ChoiceDetected(clause_tokens, ci) ==
    ChoiceLocated(WordsOf(clause_tokens), ci, find_subject_and_verb(clause_tokens, ci))

ClauseChoice(clause_tokens) ==
    ChoiceDetected(clause_tokens, detect_compound_subject(WordsOf(clause_tokens)))

\* The 1-based position i is the first one from lo on whose flag is set.
FirstSet(flags, lo, i) ==
    /\ i \in lo..Len(flags)
    /\ flags[i]
    /\ \A j \in lo..(i - 1) : ~flags[j]

\* 0-based index of the second subject of the compound detected in the words ws.
SecondSubjectIndex(ws) == SkipDeterminers(ws, FirstCompoundIndex(ws) + 1)

\* 0-based index at which the search of the main verb starts: behind the subject,
\* and behind the second subject of a detected compound.
SearchStart(c) ==
    IF c.compound THEN SecondSubjectIndex(c.words) + 1 ELSE c.subject_idx + 1

\* The choice of a clause with neither contraction nor auxiliary, mf flagging the
\* words eligible as main verb: the first eligible word after the subject (after the
\* compound span when a compound subject is detected), the last word when none is
\* eligible, no verb when nothing follows the subject.
MainOrFallback(c, mf) ==
    IF \E i \in (SearchStart(c) + 1)..Len(c.words) : mf[i]
    THEN FirstSet(mf, SearchStart(c) + 1, c.verb_idx + 1)
    ELSE IF Len(c.words) > SearchStart(c)
         THEN c.verb_idx = Len(c.words) - 1
         ELSE c.verb_idx = -1

\* The verb of the choice c by priority: cf, af and mf flag the contractions, the
\* auxiliaries and the words eligible as main verb.
ByPriority(c, cf, af, mf) ==
    /\ IF \E i \in 1..Len(cf) : cf[i] THEN FirstSet(cf, 1, c.verb_idx + 1)
       ELSE IF \E i \in 1..Len(af) : af[i] THEN FirstSet(af, 1, c.verb_idx + 1)
       ELSE MainOrFallback(c, mf)
    /\ c.verb = (IF c.verb_idx = -1 THEN NoWord ELSE c.words[c.verb_idx + 1])

VerbByPriority(c) ==
    c.words # << >> =>
        ByPriority(c, [i \in 1..Len(c.words) |-> IsContraction(c.words[i])],
                      [i \in 1..Len(c.words) |-> IsAuxiliary(c.words[i])],
                      [i \in 1..Len(c.words) |-> IsMainVerbCandidate(c.words[i])])

\* The clause opens with a pronoun, its subject, followed by a contraction.
PronounThenContraction(c) ==
    /\ Len(c.words) >= 2
    /\ Lower(c.words[1]) \in DOMAIN PRONOUNS
    /\ c.subject_idx = 0
    /\ Lower(c.words[2]) \in DOMAIN CONTRACTIONS

\* Such a clause is "ok" exactly when the lexicon numbers of the two are equal.
ContractionAgrees(c, analysis) ==
    PronounThenContraction(c) =>
        (analysis.status = "ok"
            <=> PRONOUNS[Lower(c.words[1])] = CONTRACTIONS[Lower(c.words[2])])

AllByPriority(cl) ==
    \A k \in 1..Len(cl) :
        /\ VerbByPriority(ClauseChoice(cl[k]))
        /\ ContractionAgrees(ClauseChoice(cl[k]), AnalysisOf(cl, k))

\* C15: the verb of a clause is its first contraction if it has one; otherwise its
\* first auxiliary if it has one; otherwise the first eligible word after the
\* subject, and the last word when no word is eligible.  A clause of a pronoun
\* subject followed by a contraction is "ok" exactly when the pronoun's number is
\* the contraction's lexicon number.
C15_VerbPriority == pc = "done" => AllByPriority(Clauses)

\* The token t is a span of the string s with its text.
IsSpanOf(t, s) ==
    /\ 0 <= t.start /\ t.start < t.end /\ t.end <= Len(s)
    /\ t.text = SubSeq(s, t.start + 1, t.end)

\* The 0-based position p of the string lies in the token t.
InToken(p, t) == t.start <= p /\ p < t.end

\* Number of apostrophes of the text.
Apostrophes(text) == Cardinality({ p \in 1..Len(text) : SubSeq(text, p, p) = "'" })

\* A word token holds at most one apostrophe; any other token is one character.
IsWordOrMark(t) ==
    IF IsWordChar(At(t.text, 0)) THEN Apostrophes(t.text) <= 1 ELSE Len(t.text) = 1

\* C16: the tokens of tokenize are spans of the input with their text, in strictly
\* increasing order without overlap; a character of the input lies in a token
\* exactly when it is no whitespace, and then in one token only; a word token holds
\* at most one apostrophe and every other token is one character long.
C16_TokensCoverInput ==
    pc = "done" =>
        /\ \A i \in 1..Len(tokens) : IsSpanOf(tokens[i], sentence) /\ IsWordOrMark(tokens[i])
        /\ \A i \in 1..(Len(tokens) - 1) :
               tokens[i].start < tokens[i + 1].start /\ tokens[i].end <= tokens[i + 1].start
        /\ \A p \in 0..(Len(sentence) - 1) :
               /\ IsSpace(At(sentence, p)) <=> ~\E i \in 1..Len(tokens) : InToken(p, tokens[i])
               /\ Cardinality({ i \in 1..Len(tokens) : InToken(p, tokens[i]) }) <= 1

\* C16 witness: a word with an apostrophe, a second apostrophe that is a token of
\* its own, and a blank.
C16_Witness ==
    /\ pc = "done"
    /\ Len(tokens) = 2
    /\ \E i \in 1..Len(tokens) : Len(tokens[i].text) = 3 /\ Apostrophes(tokens[i].text) = 1
    /\ \E i \in 1..Len(tokens) : tokens[i].text = "'"
    /\ \E p \in 0..(Len(sentence) - 1) : IsSpace(At(sentence, p))

\* Rule r of the table matches the string at the position q and at none before.
LeftmostMatch(r, string, q) ==
    /\ matches(CSG_PRODUCTION_RULES[r], string, q)
    /\ \A j \in 0..(q - 1) : ~matches(CSG_PRODUCTION_RULES[r], string, j)

\* Rule r of the table matches the string somewhere and no rule before it does.
FirstMatchingRule(r, string) ==
    /\ RuleMatches(CSG_PRODUCTION_RULES[r], string)
    /\ \A j \in 1..(r - 1) : ~RuleMatches(CSG_PRODUCTION_RULES[j], string)

\* The second step is the rewrite of the string by its first matching rule, at the
\* leftmost position where that rule matches.
IsFirstRewrite(step, string) ==
    \E r \in 1..Len(CSG_PRODUCTION_RULES), q \in 0..(Len(string) - 1) :
        /\ FirstMatchingRule(r, string)
        /\ LeftmostMatch(r, string, q)
        /\ step.rule = CSG_PRODUCTION_RULES[r].rule_id
        /\ step.string = apply(CSG_PRODUCTION_RULES[r], string, q)

\* The steps and the final string of a derivation of the string.
DerivesOnce(steps, final_string, string) ==
    /\ Len(steps) \in {1, 2}
    /\ steps[1].step = 0 /\ steps[1].string = string /\ steps[1].rule = NoWord
    /\ IF \E r \in 1..Len(CSG_PRODUCTION_RULES) : RuleMatches(CSG_PRODUCTION_RULES[r], string)
       THEN Len(steps) = 2 /\ steps[2].step = 1 /\ IsFirstRewrite(steps[2], string)
       ELSE Len(steps) = 1
    /\ final_string = steps[Len(steps)].string
    /\ rules_applied(steps) = Len(steps) - 1

\* C17: a derivation starts with step 0, the initial string and no rule; it has at
\* most one more step, step 1, made by the first rule in table order that matches
\* somewhere, applied at the leftmost position where it matches; final_string is the
\* string of the last step and rules_applied the number of steps less one.
C17_OneRewrite ==
    (pc = "done" /\ derivation # None)
        => DerivesOnce(derivation[1], derivation[2], parse_string)

\* C17 witness: R1.1 is applied although R1.2 matches further left, and the string
\* it yields still matches a rule.
C17_Witness ==
    /\ pc = "done"
    /\ derivation # None
    /\ Len(derivation[1]) = 2
    /\ derivation[1][2].rule = "R1.1"
    /\ \E q \in 0..(Len(parse_string) - 1) :
           /\ matches(CSG_PRODUCTION_RULES[2], parse_string, q)
           /\ q < FirstPosition(CSG_PRODUCTION_RULES[1], parse_string)
    /\ RuleMatches(CSG_PRODUCTION_RULES[2], derivation[2])

\* C18: wherever a production rule matches, the string its apply returns is no
\* longer than the string it was applied to.
C18_LengthNotIncreased ==
    (pc = "done" /\ rule # 0) => Len(new_string) <= Len(parse_string)

\* C19: is_correct of a derivation is true exactly when the initial string holds the
\* verb tag of the expected number.
C19_IsCorrectOfInitial ==
    (pc = "done" /\ derivation # None)
        => (derivation[3] <=> Contains(parse_string, "VP[" \o expected_verb_number \o "]"))

\* The singular form of a regular verb by the stated rule: "es" after s, sh, ch, x,
\* z and after o but not oo, eo, io; "ies" for the y after a consonant; "s" otherwise.
SingularOf(v, v_lower) ==
    IF \/ EndsWithAny(v_lower, {"s", "sh", "ch", "x", "z"})
       \/ (EndsWith(v_lower, "o") /\ ~EndsWithAny(v_lower, {"oo", "eo", "io"}))
    THEN v \o "es"
    ELSE IF /\ EndsWith(v_lower, "y")
            /\ Len(v_lower) > 1
            /\ At(v_lower, Len(v_lower) - 2) \notin CharsOf("aeiou")
         THEN DropLast(v, 1) \o "ies"
         ELSE v \o "s"

\* C20: for a regular verb v, get_correct_verb_form(v, "singular") is v + "es" when v
\* ends in s, sh, ch, x, z, or in o but not oo, eo, io; v with y turned into ies when
\* v ends in a consonant and y; v + "s" otherwise.
C20_SingularForm ==
    (pc = "done" /\ target_number = "singular" /\ IsRegularVerb(verb))
        => correct_verb = SingularOf(verb, Lower(verb))

\* The endings after which the plural rule looks at the base of a verb in 'es'.
EsEndings == {"s", "sh", "ch", "x", "z", "o"}

\* The plural form as worded: 'ies' to 'y'; a verb in 'es' loses 'es' unless the base
\* then left ends in one of EsEndings, and loses only its 's' in that case; any other
\* final 's' is dropped.
PluralAsWorded(v, v_lower) ==
    IF EndsWith(v_lower, "ies") THEN DropLast(v, 3) \o "y"
    ELSE IF EndsWith(v_lower, "es")
         THEN IF EndsWithAny(DropLast(v, 2), EsEndings) THEN DropLast(v, 1) ELSE DropLast(v, 2)
    ELSE IF EndsWith(v_lower, "s") THEN DropLast(v, 1)
    ELSE v

\* The plural form with the test on the base the other way round: a verb of more
\* than two letters in 'es' loses 'es' when the base then left ends in one of
\* EsEndings, and loses only its 's' otherwise.
PluralByBase(v, v_lower) ==
    IF EndsWith(v_lower, "ies") THEN DropLast(v, 3) \o "y"
    ELSE IF EndsWith(v_lower, "es") /\ Len(v_lower) > 2
         THEN IF EndsWithAny(DropLast(v, 2), EsEndings) THEN DropLast(v, 2) ELSE DropLast(v, 1)
    ELSE IF EndsWith(v_lower, "s") THEN DropLast(v, 1)
    ELSE v

\* C21 as stated: for a regular verb v, get_correct_verb_form(v, "plural") turns a
\* final 'ies' into 'y', strips 'es' from a verb in 'es' unless the base ends in s,
\* sh, ch, x, z or o and strips only the 's' in that case, and otherwise strips a
\* final 's'.
C21_PluralForm ==
    (pc = "done" /\ target_number = "plural" /\ IsRegularVerb(verb))
        => correct_verb = PluralAsWorded(verb, Lower(verb))

\* C21 amended: for a regular verb v, get_correct_verb_form(v, "plural") turns a
\* final 'ies' into 'y'; strips 'es' from a verb of more than two letters in 'es'
\* when the base ends in s, sh, ch, x, z or o, and strips only the 's' when it does
\* not; and otherwise strips a final 's'.
C21_PluralFormByBase ==
    (pc = "done" /\ target_number = "plural" /\ IsRegularVerb(verb))
        => correct_verb = PluralByBase(verb, Lower(verb))

\* A verb in 'es' whose base ends in 's' was pluralized to its base.
C21_Witness ==
    /\ pc = "done"
    /\ target_number = "plural"
    /\ verb = "uses"
    /\ correct_verb = "us"

\* C22: for a contraction c of the lexicon and a target number T,
\* get_correct_verb_form(c, T) is a contraction of the lexicon whose number is T.
C22_ContractionSibling ==
    (pc = "done" /\ Lower(verb) \in DOMAIN CONTRACTIONS)
        => /\ Lower(correct_verb) \in DOMAIN CONTRACTIONS
           /\ CONTRACTIONS[Lower(correct_verb)] = target_number

\* The steps of the lookup a lower-cased word satisfies, 1 to 8 in priority order.
NounSteps(w) ==
    {k \in 1..8 :
        \/ k = 1 /\ w \in INDEFINITE_PRONOUNS
        \/ k = 2 /\ w \in DOMAIN PRONOUNS
        \/ k = 3 /\ w \in SINGULAR_PLURALS
        \/ k = 4 /\ w \in COLLECTIVE_NOUNS
        \/ k = 5 /\ w \in UNIT_WORDS
        \/ k = 6 /\ w \in irregular_plurals
        \/ k = 7 /\ EndsWith(w, "s") /\ ~EndsWith(w, "'s")
        \/ k = 8}

FirstStep(w) == CHOOSE k \in NounSteps(w) : \A j \in NounSteps(w) : k <= j

\* The (category, number) a step gives to the lower-cased word w.
StepClass(k, w) ==
    CASE k = 1 -> <<"indefinite", "singular">>
      [] k = 2 -> <<"pronoun", IF w \in {"he", "she", "it"} THEN "singular" ELSE "plural">>
      [] k = 3 -> <<"singular_plural", "singular">>
      [] k = 4 -> <<"collective", "singular">>
      [] k = 5 -> <<"unit", "singular">>
      [] k = 6 -> <<"regular", "plural">>
      [] k = 7 -> <<"regular", "plural">>
      [] k = 8 -> <<"regular", "singular">>

\* C23: classify_noun is the eight-step lookup on the lower-cased word, the first
\* step that matches winning; a unit word that is also an irregular plural is
\* (unit, singular), and every word of the indefinite, singular-plural, collective
\* and unit lexicons is singular, also when it ends in 's'.
C23_NounPriority ==
    pc = "done" =>
        /\ noun_class = StepClass(FirstStep(Lower(noun)), Lower(noun))
        /\ Lower(noun) \in UNIT_WORDS \cap irregular_plurals => noun_class = <<"unit", "singular">>
        /\ Lower(noun) \in INDEFINITE_PRONOUNS \cup SINGULAR_PLURALS \cup COLLECTIVE_NOUNS
                               \cup UNIT_WORDS
              => noun_class[2] = "singular"

\* A capitalized unit word that is also an irregular plural was classified.
C23_Witness ==
    /\ pc = "done"
    /\ noun = "Feet"
    /\ noun_class = <<"unit", "singular">>

\* A word that looks like a verb before a coordinator: an auxiliary, an irregular
\* verb, a contraction, or a word of more than three letters in s, ed or ing that is
\* no pronoun.
VerbLikeBefore(w) ==
    \/ Lower(w) \in AUXILIARIES \cup DOMAIN IRREGULAR_VERBS \cup DOMAIN CONTRACTIONS
    \/ /\ EndsWithAny(Lower(w), {"s", "ed", "ing"})
       /\ Lower(w) \notin DOMAIN PRONOUNS
       /\ Len(w) > 3

\* A verb-looking word after a pronoun: an auxiliary, an irregular verb, a
\* contraction, or a word in s, ed or ing.
VerbLooking(w) ==
    \/ Lower(w) \in AUXILIARIES \cup DOMAIN IRREGULAR_VERBS \cup DOMAIN CONTRACTIONS
    \/ EndsWithAny(Lower(w), {"s", "ed", "ing"})

\* The word at 1-based position j is a personal pronoun with a verb-looking word
\* right after it.
OpensClause(j) ==
    /\ Lower(words[j]) \in DOMAIN PRONOUNS
    /\ j < Len(words)
    /\ VerbLooking(words[j + 1])

\* C24: when detect_compound_subject returns a compound, the word right before the
\* returned coordinator is not verb-like, and the word after the coordinator, past
\* determiners, is not a personal pronoun followed by a verb-looking word.
C24_CompoundNotClause ==
    (pc = "done" /\ compound_info # None)
        => \E i \in 2..(Len(words) - 1), j \in 3..Len(words) :
               /\ Lower(words[i]) = compound_info.coordinator
               /\ compound_info.subjects[1] = words[i - 1]
               /\ FirstAfterDeterminers(i, j)
               /\ compound_info.subjects[2] = words[j]
               /\ ~VerbLikeBefore(words[i - 1])
               /\ ~OpensClause(j)

\* In a clause with a detected compound subject and neither contraction nor
\* auxiliary, the verb, when one is returned, stands after the second subject.
VerbAfterCompound(c) ==
    (/\ c.compound
     /\ \A i \in 1..Len(c.words) : ~IsContraction(c.words[i]) /\ ~IsAuxiliary(c.words[i])
     /\ c.verb_idx # -1)
        => c.verb_idx > SecondSubjectIndex(c.words)

AllVerbsAfterCompound(cl) == \A k \in 1..Len(cl) : VerbAfterCompound(ClauseChoice(cl[k]))

\* C25: when a compound subject is detected in a clause with no contraction and no
\* auxiliary, the verb find_subject_and_verb returns lies strictly after the second
\* subject of the compound.
C25_VerbAfterCompound == pc = "done" => AllVerbsAfterCompound(Clauses)

RECURSIVE ClauseStart(_, _)
\* 1-based position in the token list of the first token of clause k of the clauses
\* cl, when one token lies between two clauses.
ClauseStart(cl, k) == IF k = 1 THEN 1 ELSE ClauseStart(cl, k - 1) + Len(cl[k - 1]) + 1

\* Clause k of cl is the run of the tokens ts that starts at position s.
IsRunAt(ts, cl, k, s) ==
    /\ cl[k] # << >>
    /\ s + Len(cl[k]) - 1 <= Len(ts)
    /\ cl[k] = SubSeq(ts, s, s + Len(cl[k]) - 1)

\* The token after clause k of cl, which starts at s, is a clause coordinator, and
\* the clause holds a verb-like token.
ClosedAtCoordinator(ts, cl, k, s) ==
    /\ s + Len(cl[k]) <= Len(ts)
    /\ Lower(ts[s + Len(cl[k])].text) \in clause_coordinators
    /\ \E i \in 1..Len(cl[k]) : is_likely_verb(Lower(cl[k][i].text))

\* The clauses cl are the tokens ts less one coordinator between two clauses.
Partitions(ts, cl) ==
    /\ Len(cl) >= 1
    /\ Len(cl) = 1 => cl[1] = ts
    /\ Len(cl) > 1 =>
          /\ \A k \in 1..Len(cl) : IsRunAt(ts, cl, k, ClauseStart(cl, k))
          /\ \A k \in 1..(Len(cl) - 1) : ClosedAtCoordinator(ts, cl, k, ClauseStart(cl, k))
          /\ ClauseStart(cl, Len(cl)) + Len(cl[Len(cl)]) - 1 = Len(ts)

\* C26: the clauses split_compound_sentence returns are contiguous runs of the
\* tokens in their order; the only tokens left out are the coordinators at which a
\* split was committed, one per boundary, each behind a verb-like token of its
\* clause; with no split the result is the one original token list.
C26_SplitPartitions == pc = "done" => Partitions(tokens, clauses)

\* A sentence with a comma was split into three clauses.
C26_Witness ==
    /\ pc = "done"
    /\ Len(clauses) = 3
    /\ \E i \in 1..Len(tokens) : tokens[i].text = ","

\* The clause has two tokens or more, one of them a word, and analyze_single_clause
\* does not answer it with the 'too short' error.
ClauseLongEnough(clause_tokens) ==
    /\ Len(clause_tokens) >= 2
    /\ \E i \in 1..Len(clause_tokens) : IsWordToken(clause_tokens[i])
    /\ analyze_single_clause(clause_tokens, clause_text_of(clause_tokens)).message
           # "Unable to parse clause (too short)."

\* C27: every clause split_compound_sentence returns after a committed split has at
\* least two tokens and at least one word token, so that analyze_single_clause never
\* returns the 'Unable to parse clause (too short).' error for it.
C27_ClausesLongEnough ==
    (pc = "done" /\ Len(clauses) > 1) => \A k \in 1..Len(clauses) : ClauseLongEnough(clauses[k])

\* A split into a clause of exactly two tokens and a clause that holds a comma.
C27_Witness ==
    /\ pc = "done"
    /\ Len(clauses) > 1
    /\ \E k \in 1..Len(clauses) : Len(clauses[k]) = 2
    /\ \E k \in 1..Len(clauses) : \E i \in 1..Len(clauses[k]) : ~IsWordToken(clauses[k][i])

\* 1-based indices of the production rules that match the string somewhere.
MatchingRules(string) ==
    { r \in 1..Len(CSG_PRODUCTION_RULES) : RuleMatches(CSG_PRODUCTION_RULES[r], string) }

\* The rules R2.1, R3 and R4.1 to R4.4.
UnreachedRules ==
    { r \in 1..Len(CSG_PRODUCTION_RULES) :
        CSG_PRODUCTION_RULES[r].rule_id \in {"R2.1", "R3", "R4.1", "R4.2", "R4.3", "R4.4"} }

\* The derivation of the result r is the initial step alone.
InitialStepOnly(r) ==
    /\ Len(r.derivation) = 1
    /\ r.derivation[1].step = 0
    /\ r.csg_analysis.rules_applied = 0
    /\ r.csg_analysis.final_string = r.csg_analysis.initial_string

\* The derivation of the result r is the initial step and one rewrite.
OneRewrite(r) ==
    /\ Len(r.derivation) = 2
    /\ r.derivation[2].step = 1
    /\ r.csg_analysis.rules_applied = 1

\* C28: at most one production rule matches the initial tagged string of a clause,
\* and none of R2.1, R3, R4.1 to R4.4 does; a compound subject, 'I' and the
\* third-person, 'we' and 'they' pronouns get the initial step alone, while regular,
\* 'you', indefinite, collective, unit and singular_plural subjects get one rewrite.
C28_InitialStringRules ==
    pc = "done" =>
        /\ Cardinality(MatchingRules(result.csg_analysis.initial_string)) <= 1
        /\ MatchingRules(result.csg_analysis.initial_string) \cap UnreachedRules = {}
        /\ sentence \in SentencesOf(UntaggedSubjects) => InitialStepOnly(result)
        /\ sentence \in SentencesOf(TaggedSubjects) => OneRewrite(result)

\* The subject 'I' was analyzed: its tagged string is lower-cased and no rule fits.
C28_Witness ==
    /\ pc = "done"
    /\ sentence = "I run"
    /\ result.csg_analysis.initial_string = "NP[i] VP[plural]"
    /\ Len(result.derivation) = 1

\* The subject and the verb of the choice c, when both are found, are two tokens.
SubjectIsNotVerb(c) == (c.subject # NoWord /\ c.verb # NoWord) => c.subject_idx # c.verb_idx

AllSubjectsNotVerbs(cl) == \A k \in 1..Len(cl) : SubjectIsNotVerb(ClauseChoice(cl[k]))

\* C29: when find_subject_and_verb returns both a subject and a verb, they are
\* different tokens of the clause: subject_idx differs from verb_idx.
C29_SubjectIsNotVerb == pc = "done" => AllSubjectsNotVerbs(Clauses)

\* The result r of a sentence s reports a mismatch with a suggested correction.
IsMismatchResult(r) == r.status = "error" /\ "suggested_correction" \in DOMAIN r

\* The suggestion of the result r of the sentence s differs from s and is accepted.
SuggestionAccepted(s, r) ==
    /\ r.suggested_correction # s
    /\ analyze(r.suggested_correction).status = "ok"

\* C30: for a single-clause sentence that analyze answers with a mismatch error,
\* analyze of the suggested correction has status 'ok'.
C30_SuggestionConverges ==
    (pc = "done" /\ Len(Clauses) = 1 /\ IsMismatchResult(result))
        => SuggestionAccepted(sentence, result)

====
